---- MODULE Spec2Model ----
(***************************************************************************)
(* Prompt Guessr backend: the room/game service (room-service), the        *)
(* socket gateway (room-handlers) and the Redis room repository, modelled  *)
(* as a state machine over one stored room.                                *)
(*                                                                         *)
(* Every service function reads the room with getRoomById (a fresh         *)
(* deserialized copy), changes that copy in memory and writes the whole    *)
(* copy back with updateRoom.  The awaits between the read and the write   *)
(* let other handlers run, so a command in flight is a slot holding its    *)
(* private copy of the room.                                               *)
(***************************************************************************)
EXTENDS Integers, Sequences, FiniteSets, Bags, TLC

\* ------------------------------------------------------------------ bounds
NumPlayers == 2
MaxInFlight == 2
MaxSubmits == 2
MaxResubmits == 1
MaxRevealCmds == 5
MaxLobbyCmds == 2
MaxRoundCmds == 2
MaxRoundCount == 2
MaxPlayers == 2
MaxClock == 1
ImageCount == 1

PlayerIds == 1..NumPlayers
Slots == 1..MaxInFlight

\* Prompt and guess texts, as sequences of characters.
Texts == { <<"a", " ", "b">>, <<"c">> }

\* ------------------------------------------------------------- map helpers
\* A Map used as a pure lookup is a function over the set of its keys.
MapSet(m, k, v) == [x \in (DOMAIN m) \cup {k} |-> IF x = k THEN v ELSE m[x]]

Range(s) == { s[i] : i \in DOMAIN s }

\* ------------------------------------------------------------------ rooms
\* Player, as createRoom and joinRoom build it.
hostPlayer(playerId, now) ==
    [ id |-> playerId, isHost |-> TRUE, isReady |-> FALSE,
      isConnected |-> TRUE, joinedAt |-> now, lastSeenAt |-> now ]

player(playerId, now) ==
    [ id |-> playerId, isHost |-> FALSE, isReady |-> FALSE,
      isConnected |-> TRUE, joinedAt |-> now, lastSeenAt |-> now ]

NoGame == [ status |-> "absent" ]

DEFAULT_SETTINGS == [ roundCount |-> 3, imageCount |-> ImageCount ]

\* room.players is an insertion-ordered Map: a sequence of players with
\* distinct ids.
playerIdsOf(room) == { room.players[i].id : i \in DOMAIN room.players }

\* The room startGame is applied to in the runs below: the host created it,
\* the others joined, everyone is ready.
ReadyLobby ==
    [ status |-> "lobby",
      hostId |-> 1,
      players |-> [ i \in PlayerIds |->
                      [ (IF i = 1 THEN hostPlayer(i, 0) ELSE player(i, 0))
                          EXCEPT !.isReady = TRUE ] ],
      maxPlayers |-> 8,
      settings |-> DEFAULT_SETTINGS,
      game |-> NoGame ]

newRound(roundNumber, now) ==
    [ roundNumber |-> roundNumber,
      prompts |-> << >>,
      selections |-> << >>,
      guesses |-> << >>,
      currentRevealIndex |-> 0,
      currentResultIndex |-> 0,
      bonusPoints |-> << >>,
      scores |-> << >>,
      status |-> "prompt_submit",
      startedAt |-> now,
      finishedAt |-> 0 ]

\* The game startGame creates: round 1 in prompt_submit, every player on the
\* leaderboard with no points.
newGame(room, now) ==
    [ status |-> "prompt_submit",
      currentRound |-> 1,
      rounds |-> << newRound(1, now) >>,
      leaderboard |->
        [ scores |-> [ i \in DOMAIN room.players |->
                         [ playerId |-> room.players[i].id,
                           totalScore |-> 0, roundScores |-> << >> ] ],
          rankings |-> [ i \in DOMAIN room.players |-> room.players[i].id ] ],
      finishedAt |-> 0 ]

\* startGame without its write of room.status.
startGame_KeepsLobby(room, now) == [ room EXCEPT !.game = newGame(room, now) ]

startGame(room, now) ==
    [ room EXCEPT !.status = "playing", !.game = newGame(room, now) ]

getCurrentRound(game) == game.rounds[game.currentRound]

\* The room with its current round replaced by r.
withRound(room, r) ==
    [ room EXCEPT !.game.rounds[room.game.currentRound] = r ]

\* A phase change that forgets game.status.
withPhase_RoundOnly(room, r, phase) ==
    [ room EXCEPT !.game.rounds[room.game.currentRound] = [ r EXCEPT !.status = phase ] ]

\* The room with its current round replaced by r, the round's status and
\* game.status both set to phase.
withPhase(room, r, phase) ==
    [ room EXCEPT !.game.rounds[room.game.currentRound] = [ r EXCEPT !.status = phase ],
                  !.game.status = phase ]

\* ------------------------------------------------------------------ state
VARIABLES
    store,    \* the room stored under room:{id}
    cmd,      \* the handlers in flight: slot -> [op, pc, player, room, flag]
    gen,      \* the run of generateImagesInBackground
    sent,     \* bag of the notifications emitted
    calls,    \* bag of the image generator's verdicts: [by, player, outcome]
    issued,   \* number of commands received
    clock,    \* Date.now()
    keys,     \* the room's other Redis keys: room:code:{code}, active_rooms
    fallbackProviderInstance,   \* the image service's fallback provider
    redis     \* the keys of all rooms: room:{id}, room:code:{code}, active_rooms

vars == << store, cmd, gen, sent, calls, issued, clock, keys, fallbackProviderInstance, redis >>

\* fallbackProviderInstance = null.
NoProvider == "null"

\* createRoom calls followed, and the codes generateRoomCode draws from.
MaxCreates == 3
NumCodes == 2
RoomIds == 1..MaxCreates
Codes == 1..NumCodes

\* Redis with no room: room[id] is the code of the room stored under
\* room:{id}, code[c] the id stored under room:code:{c} (0: no such key),
\* active the set active_rooms.
NoRedis ==
    [ room |-> [ id \in RoomIds |-> 0 ],
      code |-> [ c \in Codes |-> 0 ],
      active |-> {} ]

Idle == [ op |-> "idle", pc |-> "idle", player |-> 0, room |-> NoGame, flag |-> FALSE ]

\* A handler in flight: what it runs, where it is, who sent the command, its
\* private copy of the room, and the flag the service returned
\* (allSubmitted, allSelected, allGuessed).
Handler(op, pc, p, room, flag) ==
    [ op |-> op, pc |-> pc, player |-> p, room |-> room, flag |-> flag ]

\* pending counts the calls of generateImagesInBackground not yet begun.
\* playerSockets is what the last fetchSockets of the run returned.
NoGen == [ pc |-> "idle", pending |-> 0, room |-> NoGame, task |-> << >>,
           rejectedPlayerIds |-> {}, playerSockets |-> << >> ]

\* Notifications: to = 0 is a broadcast to the room (io.to(roomId)), to = p a
\* unicast to the socket of player p; playerId and tag are the payload.
Event(type, to, playerId, tag) ==
    [ type |-> type, to |-> to, playerId |-> playerId, tag |-> tag ]

emit(bag, e) == bag (+) SetToBag({e})

PromptSubmitted(p) == Event("prompt_submitted", 0, p, "")
PhaseTransition(newPhase) == Event("phase_transition", 0, 0, newPhase)
ImageProgress == Event("image_progress", 0, 0, "")
PromptRejected(p) == Event("prompt_rejected", p, p, "")
ErrorTo(p, code) == Event("error", p, 0, code)

\* Handlers are interchangeable: a command received takes the first free slot.
FreeSlot(s) ==
    /\ cmd[s].op = "idle"
    /\ \A s2 \in Slots : s2 < s => cmd[s2].op # "idle"

\* ------------------------------------------------------------- repository
\* No value under room:{id}: getRoomById returns null.
NoRoom == [ status |-> "none" ]

\* The two other keys of the room: code is whether room:code:{code} holds the
\* room's id, active whether the id is a member of active_rooms.
LiveKeys == [ code |-> TRUE, active |-> TRUE ]
\* deleteRoom without its delete of the code index.
NoKeys_CodeLeft == [ code |-> TRUE, active |-> FALSE ]

NoKeys == [ code |-> FALSE, active |-> FALSE ]

\* redis.get + deserializeRoom: a private copy of the stored room.
getRoomById == store

\* The code index first, then the room it names.
getRoomByCode == IF keys.code THEN getRoomById ELSE NoRoom

isRoomCodeTaken == keys.code

\* redis.exists(room:{id}), the test updateRoom makes before it writes.
roomExists == store # NoRoom

Tick ==
    /\ clock < MaxClock
    /\ clock' = clock + 1
    /\ UNCHANGED << store, cmd, gen, sent, calls, issued, keys, fallbackProviderInstance, redis >>

\* ------------------------------------------------------------ submitPrompt
submitPromptAllowed(room) == getCurrentRound(room.game).status = "prompt_submit"

\* The copy as submitPrompt leaves it before updateRoom.
submitPrompt(room, playerId, prompt, now) ==
    LET currentRound == getCurrentRound(room.game)
        prompts == MapSet(currentRound.prompts, playerId,
                          [ playerId |-> playerId, prompt |-> prompt,
                            submittedAt |-> now, images |-> << >>,
                            status |-> "pending" ])
        r == [ currentRound EXCEPT !.prompts = prompts ]
        allSubmitted == Cardinality(DOMAIN prompts) = Len(room.players)
    IN  IF allSubmitted THEN withPhase(room, r, "image_generate")
                        ELSE withRound(room, r)

submitPromptAllSubmitted(room) ==
    Cardinality(DOMAIN getCurrentRound(room.game).prompts) = Len(room.players)

\* handleSubmitPrompt up to the await of updateRoom inside submitPrompt.
SubmitPromptBegin(s, p, t) ==
    /\ FreeSlot(s)
    /\ issued < MaxSubmits
    /\ p \in playerIdsOf(getRoomById)
    /\ issued' = issued + 1
    /\ IF submitPromptAllowed(getRoomById)
         THEN /\ cmd' = [ cmd EXCEPT ![s] =
                    [ op |-> "submitPrompt", pc |-> "updateRoom", player |-> p,
                      room |-> submitPrompt(getRoomById, p, t, clock),
                      flag |-> submitPromptAllSubmitted(
                                  submitPrompt(getRoomById, p, t, clock)) ] ]
              /\ UNCHANGED sent
         ELSE /\ sent' = emit(sent, ErrorTo(p, "SUBMIT_PROMPT_FAILED"))
              /\ UNCHANGED cmd
    /\ UNCHANGED << store, gen, calls, clock, keys, fallbackProviderInstance, redis >>

\* updateRoom, then the handler's notifications and the orchestrator trigger.
SubmitPromptEnd(s) ==
    /\ cmd[s].op = "submitPrompt"
    /\ cmd[s].pc = "updateRoom"
    /\ store' = cmd[s].room
    /\ cmd' = [ cmd EXCEPT ![s] = Idle ]
    /\ IF cmd[s].flag
         THEN /\ gen' = [ gen EXCEPT !.pending = @ + 1 ]
              /\ sent' = emit(emit(sent, PromptSubmitted(cmd[s].player)),
                              PhaseTransition("image_generate"))
         ELSE /\ gen' = gen
              /\ sent' = emit(sent, PromptSubmitted(cmd[s].player))
    /\ UNCHANGED << calls, issued, clock, keys, fallbackProviderInstance, redis >>

\* -------------------------------------------------- image generation (C4)
\* The generator's verdict on one prompt is the environment's choice.
Outcomes == { "ok", "policy", "fail" }

\* The images a successful call returns: imageCount images, each an id owned
\* by the player.
generateImagesFromProvider(room, playerId) ==
    [ k \in 1..room.settings.imageCount |-> << playerId, k >> ]

setSubmission(room, playerId, submission) ==
    [ room EXCEPT !.game.rounds[room.game.currentRound].prompts[playerId] = submission ]

\* What one generation task leaves on its submission, by verdict.
taskResult(room, playerId, outcome) ==
    LET submission == getCurrentRound(room.game).prompts[playerId]
    IN  CASE outcome = "ok" ->
               setSubmission(room, playerId,
                 [ submission EXCEPT !.images = generateImagesFromProvider(room, playerId),
                                     !.status = "ready" ])
          [] outcome = "policy" ->
               setSubmission(room, playerId, [ submission EXCEPT !.status = "rejected" ])
          [] OTHER ->
               setSubmission(room, playerId, [ submission EXCEPT !.status = "failed" ])

\* A resubmission that looks at no other submission.
allReady_Unchecked(round) == TRUE

allReady(round) ==
    \A p \in DOMAIN round.prompts : round.prompts[p].status = "ready"

\* generateImagesForRound after Promise.all: the copy it writes.
generateImagesForRoundResult(room, rejectedPlayerIds) ==
    IF rejectedPlayerIds # {}
      THEN room
      ELSE withPhase(room, getCurrentRound(room.game), "image_select")

\* generateImagesInBackground begins: generateImagesForRound reads the room
\* and every task sets its submission to generating before its first await.
GenStart ==
    /\ gen.pc = "idle"
    /\ gen.pending > 0
    /\ IF getCurrentRound(getRoomById.game).status = "image_generate"
         THEN /\ gen' =
                   [ pc |-> "running",
                     pending |-> gen.pending - 1,
                     room |-> [ getRoomById EXCEPT
                                  !.game.rounds[getRoomById.game.currentRound].prompts =
                                     [ p \in DOMAIN @ |-> [ @[p] EXCEPT !.status = "generating" ] ] ],
                     task |-> [ p \in DOMAIN getCurrentRound(getRoomById.game).prompts
                                  |-> "generating" ],
                     rejectedPlayerIds |-> {},
                     playerSockets |-> << >> ]
              /\ UNCHANGED sent
         ELSE /\ gen' = [ gen EXCEPT !.pending = @ - 1 ]
              /\ sent' = emit(sent, Event("error", 0, 0, "IMAGE_GENERATION_FAILED"))
    /\ UNCHANGED << store, cmd, calls, issued, clock, keys, fallbackProviderInstance, redis >>

\* The generator answers one task; the task records the verdict on the
\* orchestrator's copy and goes on to onProgress.
GenTaskDone(p, outcome) ==
    /\ gen.pc = "running"
    /\ p \in DOMAIN gen.task
    /\ gen.task[p] = "generating"
    /\ gen' = [ gen EXCEPT
                  !.room = taskResult(gen.room, p, outcome),
                  !.task[p] = "onProgress",
                  !.rejectedPlayerIds =
                      IF outcome = "policy" THEN @ \cup {p} ELSE @ ]
    /\ calls' = emit(calls, [ by |-> "generateImagesForRound", player |-> p,
                              outcome |-> outcome ])
    /\ UNCHANGED << store, cmd, sent, issued, clock, keys, fallbackProviderInstance, redis >>

\* onProgress: saveRoomState writes the orchestrator's copy as it is now,
\* then image_progress is broadcast.
GenProgress(p) ==
    /\ gen.pc = "running"
    /\ p \in DOMAIN gen.task
    /\ gen.task[p] = "onProgress"
    /\ store' = gen.room
    /\ sent' = emit(sent, ImageProgress)
    /\ gen' = [ gen EXCEPT !.task[p] = "done" ]
    /\ UNCHANGED << cmd, calls, issued, clock, keys, fallbackProviderInstance, redis >>

RECURSIVE emitAll(_, _)
emitAll(bag, events) ==
    IF events = {} THEN bag
    ELSE LET e == CHOOSE x \in events : TRUE
         IN  emitAll(emit(bag, e), events \ {e})

\* The sessions joined to the socket.io room, in the order fetchSockets
\* returns them.  auth is the playerId of the handshake the connection was
\* opened with (0: none, or the id of a player of another room), playerId the
\* one its join_room named.  No code assigns socket.data.playerId.
MaxSockets == 2

Session(auth, playerId) == [ auth |-> auth, playerId |-> playerId ]

SocketLists ==
    UNION { [ 1..n -> { Session(a, p) : a \in 0..NumPlayers, p \in PlayerIds } ] :
              n \in 0..MaxSockets }

\* Every player holds one session, opened by connectSocket(roomId, playerId).
OwnSockets == [ p \in PlayerIds |-> Session(p, p) ]

\* playerSockets.find(s => s.data.playerId === playerId ||
\* s.handshake.auth?.playerId === playerId): the index of the first match, 0
\* for undefined.
findSocket(playerSockets, playerId) ==
    IF \E i \in DOMAIN playerSockets : playerSockets[i].auth = playerId
      THEN CHOOSE i \in DOMAIN playerSockets :
             /\ playerSockets[i].auth = playerId
             /\ \A j \in DOMAIN playerSockets :
                   playerSockets[j].auth = playerId => i <= j
      ELSE 0

\* The prompt_rejected of one rejected player: emitted on the session found,
\* none when no session is found.
promptRejectedTo(playerSockets, playerId) ==
    LET i == findSocket(playerSockets, playerId)
    IN  IF i = 0 THEN {}
        ELSE { Event("prompt_rejected", playerSockets[i].playerId, playerId, "") }

\* All tasks are done: the last updateRoom of generateImagesForRound and the
\* notifications of generateImagesInBackground.
GenFinish(playerSockets) ==
    /\ gen.pc = "running"
    /\ \A p \in DOMAIN gen.task : gen.task[p] = "done"
    /\ store' = generateImagesForRoundResult(gen.room, gen.rejectedPlayerIds)
    /\ sent' = IF gen.rejectedPlayerIds # {}
                 THEN emitAll(sent, UNION { promptRejectedTo(playerSockets, p) :
                                        p \in gen.rejectedPlayerIds \cap playerIdsOf(gen.room) })
                 ELSE emit(sent, PhaseTransition("image_select"))
    /\ gen' = [ NoGen EXCEPT !.pending = gen.pending, !.playerSockets = playerSockets ]
    /\ UNCHANGED << cmd, calls, issued, clock, keys, fallbackProviderInstance, redis >>

\* ---------------------------------------------------------- resubmitPrompt
\* resubmitPrompt without its test of the submission's status.
resubmitPromptAllowed_AnyStatus(room, playerId) ==
    /\ getCurrentRound(room.game).status = "image_generate"
    /\ playerId \in DOMAIN getCurrentRound(room.game).prompts

resubmitPromptAllowed(room, playerId) ==
    /\ getCurrentRound(room.game).status = "image_generate"
    /\ playerId \in DOMAIN getCurrentRound(room.game).prompts
    /\ getCurrentRound(room.game).prompts[playerId].status = "rejected"

\* The copy resubmitPrompt writes before it calls the generator.
resubmitPromptGenerating(room, playerId, newPrompt, now) ==
    setSubmission(room, playerId,
      [ getCurrentRound(room.game).prompts[playerId] EXCEPT
          !.prompt = newPrompt, !.submittedAt = now,
          !.images = << >>, !.status = "generating" ])

\* The copy resubmitPrompt writes after the generator answered.
resubmitPromptResult(room, playerId, outcome) ==
    LET done == taskResult(room, playerId, outcome)
    IN  IF outcome = "ok" /\ allReady(getCurrentRound(done.game))
          THEN withPhase(done, getCurrentRound(done.game), "image_select")
          ELSE done

\* handleResubmitPrompt up to the first updateRoom of resubmitPrompt.
ResubmitBegin(s, p, t) ==
    /\ FreeSlot(s)
    /\ issued < MaxResubmits
    /\ p \in playerIdsOf(getRoomById)
    /\ issued' = issued + 1
    /\ IF resubmitPromptAllowed(getRoomById, p)
         THEN /\ cmd' = [ cmd EXCEPT ![s] =
                    [ op |-> "resubmitPrompt", pc |-> "updateRoom", player |-> p,
                      room |-> resubmitPromptGenerating(getRoomById, p, t, clock),
                      flag |-> FALSE ] ]
              /\ UNCHANGED sent
         ELSE /\ sent' = emit(sent, ErrorTo(p, "RESUBMIT_PROMPT_FAILED"))
              /\ UNCHANGED cmd
    /\ UNCHANGED << store, gen, calls, clock, keys, fallbackProviderInstance, redis >>

\* The first updateRoom: the submission is stored as generating.
ResubmitSaveGenerating(s) ==
    /\ cmd[s].op = "resubmitPrompt"
    /\ cmd[s].pc = "updateRoom"
    /\ store' = cmd[s].room
    /\ cmd' = [ cmd EXCEPT ![s].pc = "generate" ]
    /\ UNCHANGED << gen, sent, calls, issued, clock, keys, fallbackProviderInstance, redis >>

\* The generator answers; resubmitPrompt writes its copy and the handler
\* emits what the result asks for.
ResubmitFinish(s, outcome) ==
    /\ cmd[s].op = "resubmitPrompt"
    /\ cmd[s].pc = "generate"
    /\ store' = resubmitPromptResult(cmd[s].room, cmd[s].player, outcome)
    /\ calls' = emit(calls, [ by |-> "resubmitPrompt", player |-> cmd[s].player,
                              outcome |-> outcome ])
    /\ sent' =
         CASE outcome = "policy" -> emit(sent, PromptRejected(cmd[s].player))
           [] outcome = "fail" -> emit(sent, ErrorTo(cmd[s].player, "RESUBMIT_PROMPT_FAILED"))
           [] OTHER ->
                IF getCurrentRound(store'.game).status = "image_select"
                  THEN emit(emit(sent, ImageProgress), PhaseTransition("image_select"))
                  ELSE emit(sent, ImageProgress)
    /\ cmd' = [ cmd EXCEPT ![s] = Idle ]
    /\ UNCHANGED << gen, issued, clock, keys, fallbackProviderInstance, redis >>

\* ------------------------------------------------------------- selectImage
\* Image ids a client may send: every generated image and an id of no image.
ImageIds == { << p, k >> : p \in PlayerIds, k \in 1..ImageCount } \cup { << 0, 0 >> }

\* Map.set on an insertion-ordered Map kept as a sequence of records with a
\* playerId key: replace in place, or append.
SeqSet(seq, rec) ==
    IF \E i \in DOMAIN seq : seq[i].playerId = rec.playerId
      THEN [ i \in DOMAIN seq |-> IF seq[i].playerId = rec.playerId THEN rec ELSE seq[i] ]
      ELSE Append(seq, rec)

selectImageAllowed(room) == getCurrentRound(room.game).status = "image_select"

selectImage(room, playerId, imageId, now) ==
    LET currentRound == getCurrentRound(room.game)
        selections == SeqSet(currentRound.selections,
                             [ playerId |-> playerId, imageId |-> imageId,
                               selectedAt |-> now ])
        r == [ currentRound EXCEPT !.selections = selections ]
    IN  IF Len(selections) = Len(room.players)
          THEN withPhase(room, r, "reveal_guess")
          ELSE withRound(room, r)

selectImageAllSelected(room) ==
    Len(getCurrentRound(room.game).selections) = Len(room.players)

\* handleSelectImage up to the await of updateRoom inside selectImage.
SelectImageBegin(s, p, imageId) ==
    /\ FreeSlot(s)
    /\ issued < MaxRevealCmds
    /\ p \in playerIdsOf(getRoomById)
    /\ issued' = issued + 1
    /\ IF selectImageAllowed(getRoomById)
         THEN /\ cmd' = [ cmd EXCEPT ![s] =
                    Handler("selectImage", "updateRoom", p,
                            selectImage(getRoomById, p, imageId, clock),
                            selectImageAllSelected(
                                selectImage(getRoomById, p, imageId, clock))) ]
              /\ UNCHANGED sent
         ELSE /\ sent' = emit(sent, ErrorTo(p, "SELECT_IMAGE_FAILED"))
              /\ UNCHANGED cmd
    /\ UNCHANGED << store, gen, calls, clock, keys, fallbackProviderInstance, redis >>

SelectImageEnd(s) ==
    /\ cmd[s].op = "selectImage"
    /\ cmd[s].pc = "updateRoom"
    /\ store' = cmd[s].room
    /\ cmd' = [ cmd EXCEPT ![s] = Idle ]
    /\ sent' = IF cmd[s].flag THEN emit(sent, PhaseTransition("reveal_guess")) ELSE sent
    /\ UNCHANGED << gen, calls, issued, clock, keys, fallbackProviderInstance, redis >>

\* ------------------------------------------------------------- submitGuess
submitGuessAllowed(room) == getCurrentRound(room.game).status = "reveal_guess"

\* Array.from(selections.values()).find(sel => sel.imageId === imageId)
findSelection(selections, imageId) ==
    LET hits == { i \in DOMAIN selections : selections[i].imageId = imageId }
    IN  IF hits = {} THEN << >>
        ELSE << selections[CHOOSE i \in hits : \A j \in hits : i <= j] >>

\* Whether this guess completes its image (allGuessed), on the copy with the
\* guess stored.
submitGuessAllGuessed(room, imageId) ==
    LET currentRound == getCurrentRound(room.game)
        imageSubmitter == findSelection(currentRound.selections, imageId)
        expectedGuesses == IF imageSubmitter # << >> THEN Len(room.players) - 1
                                                     ELSE Len(room.players)
    IN  Cardinality(DOMAIN currentRound.guesses[imageId]) >= expectedGuesses

submitGuess(room, playerId, imageId, guessText, now) ==
    LET currentRound == getCurrentRound(room.game)
        imageGuesses == IF imageId \in DOMAIN currentRound.guesses
                          THEN currentRound.guesses[imageId] ELSE << >>
        guess == [ imageId |-> imageId, playerId |-> playerId,
                   guessText |-> guessText, submittedAt |-> now, score |-> << >> ]
        r == [ currentRound EXCEPT
                 !.guesses = MapSet(@, imageId, MapSet(imageGuesses, playerId, guess)) ]
        stored == withRound(room, r)
        totalImages == Len(r.selections)
    IN  IF submitGuessAllGuessed(stored, imageId)
          THEN IF r.currentRevealIndex < totalImages - 1
                 THEN withRound(room, [ r EXCEPT !.currentRevealIndex = @ + 1 ])
                 ELSE withPhase(room, r, "scoring")
          ELSE stored

\* handleSubmitGuess up to the await of updateRoom inside submitGuess.
SubmitGuessBegin(s, p, imageId, t) ==
    /\ FreeSlot(s)
    /\ issued < MaxRevealCmds
    /\ p \in playerIdsOf(getRoomById)
    /\ issued' = issued + 1
    /\ IF submitGuessAllowed(getRoomById)
         THEN /\ cmd' = [ cmd EXCEPT ![s] =
                    Handler("submitGuess", "updateRoom", p,
                            submitGuess(getRoomById, p, imageId, t, clock),
                            submitGuessAllGuessed(
                                submitGuess(getRoomById, p, imageId, t, clock), imageId)) ]
              /\ UNCHANGED sent
         ELSE /\ sent' = emit(sent, ErrorTo(p, "SUBMIT_GUESS_FAILED"))
              /\ UNCHANGED cmd
    /\ UNCHANGED << store, gen, calls, clock, keys, fallbackProviderInstance, redis >>

\* updateRoom of submitGuess; the handler then scores the round, or announces
\* the next image.
SubmitGuessEnd(s) ==
    /\ cmd[s].op = "submitGuess"
    /\ cmd[s].pc = "updateRoom"
    /\ store' = cmd[s].room
    /\ IF cmd[s].flag /\ getCurrentRound(cmd[s].room.game).status = "scoring"
         THEN /\ cmd' = [ cmd EXCEPT ![s].pc = "scoreRound" ]
              /\ UNCHANGED sent
         ELSE /\ cmd' = [ cmd EXCEPT ![s] = Idle ]
              /\ sent' = IF cmd[s].flag
                           THEN emit(sent, PhaseTransition("reveal_guess"))
                           ELSE sent
    /\ UNCHANGED << gen, calls, issued, clock, keys, fallbackProviderInstance, redis >>

\* ------------------------------------------------- calculateSimilarityScore
\* Strings are sequences of one-character strings.  The alphabet is what the
\* texts of the model use: upper- and lower-case letters, the space, and
\* punctuation; every character that is neither a space nor punctuation is a
\* word character of the regular expressions.
UpperToLower == ("A" :> "a") @@ ("B" :> "b") @@ ("C" :> "c")
Punctuation == { ",", ".", "!", "-" }
Whitespace == { " " }

toLowerCase(str) ==
    [ i \in DOMAIN str |->
        IF str[i] \in DOMAIN UpperToLower THEN UpperToLower[str[i]] ELSE str[i] ]

RECURSIVE trimStart(_)
trimStart(str) ==
    IF str # << >> /\ Head(str) \in Whitespace THEN trimStart(Tail(str)) ELSE str

RECURSIVE trimEnd(_)
trimEnd(str) ==
    IF str # << >> /\ str[Len(str)] \in Whitespace
      THEN trimEnd(SubSeq(str, 1, Len(str) - 1))
      ELSE str

trim(str) == trimEnd(trimStart(str))

RECURSIVE splitTokens(_, _, _)
\* text.split(/\s+/).filter(token => token.length > 0): cur is the token being
\* read, acc the tokens read.
splitTokens(text, cur, acc) ==
    IF text = << >>
      THEN IF cur = << >> THEN acc ELSE Append(acc, cur)
    ELSE IF Head(text) \in Whitespace
      THEN splitTokens(Tail(text), << >>, IF cur = << >> THEN acc ELSE Append(acc, cur))
      ELSE splitTokens(Tail(text), Append(cur, Head(text)), acc)

tokenize(text) ==
    splitTokens([ i \in DOMAIN text |->
                    IF text[i] \in Punctuation THEN " " ELSE text[i] ],
                << >>, << >>)

Min3(a, b, c) ==
    IF a <= b /\ a <= c THEN a ELSE IF b <= c THEN b ELSE c

levenshteinDistance(str1, str2) ==
    LET matrix[i \in 0..Len(str1), j \in 0..Len(str2)] ==
            IF j = 0 THEN i
            ELSE IF i = 0 THEN j
            ELSE Min3(matrix[i - 1, j] + 1,
                      matrix[i, j - 1] + 1,
                      matrix[i - 1, j - 1] + (IF str1[i] = str2[j] THEN 0 ELSE 1))
    IN  matrix[Len(str1), Len(str2)]

Max(a, b) == IF a >= b THEN a ELSE b
Min(a, b) == IF a <= b THEN a ELSE b

\* originalTokens.filter(t => guessTokens.includes(t)): the positions of
\* originalTokens that pass the filter, its length their number.
keywordIntersection(originalTokens, guessTokens) ==
    { i \in DOMAIN originalTokens : originalTokens[i] \in Range(guessTokens) }

\* new Set([...originalTokens, ...guessTokens])
keywordUnion(originalTokens, guessTokens) ==
    Range(originalTokens) \cup Range(guessTokens)

\* The score is Math.round((k * 0.6 + l * 0.4) * 100) with k = inter / union
\* (0 when the union is empty) and l = 1 - distance / maxLength, computed here
\* as the exact fraction num / den rounded half up.
calculateSimilarityScore(originalPrompt, guess) ==
    LET original == trim(toLowerCase(originalPrompt))
        guessText == trim(toLowerCase(guess))
        originalTokens == tokenize(original)
        guessTokens == tokenize(guessText)
        intersection == keywordIntersection(originalTokens, guessTokens)
        union == keywordUnion(originalTokens, guessTokens)
        inter == Cardinality(intersection)
        un == IF union = {} THEN 1 ELSE Cardinality(union)
        distance == levenshteinDistance(original, guessText)
        maxLength == Max(Len(original), Len(guessText))
        num == 60 * inter * maxLength + 40 * (maxLength - distance) * un
        den == un * maxLength
        finalScore == (2 * num + den) \div (2 * den)
    IN  IF original = guessText THEN 100
        ELSE Max(0, Min(100, finalScore))

RECURSIVE SumOver(_, _)
\* scores.reduce((sum, s) => sum + s.score, 0)
SumOver(f, S) ==
    IF S = {} THEN 0
    ELSE LET x == CHOOSE y \in S : TRUE IN f[x] + SumOver(f, S \ {x})

\* avgScore < 40, over a non-empty player -> score map
tricky(scores) == SumOver(scores, DOMAIN scores) < 40 * Cardinality(DOMAIN scores)

\* calculatePoints without the creator's bonus.
calculatePoints_NoBonus(scores, imageCreatorId) ==
    IF DOMAIN scores = {} THEN << >>
    ELSE [ p \in DOMAIN scores |-> scores[p] ]

\* The points one image awards: player -> points.  Math.round of a score is
\* the score, scores being integers.
calculatePoints(scores, imageCreatorId) ==
    IF DOMAIN scores = {} THEN << >>
    ELSE [ p \in (DOMAIN scores) \cup (IF tricky(scores) THEN {imageCreatorId} ELSE {}) |->
             (IF p \in DOMAIN scores THEN scores[p] ELSE 0)
           + (IF tricky(scores) /\ p = imageCreatorId THEN 50 ELSE 0) ]

\* -------------------------------------------------------------- scoreRound
\* Images whose guesses are scored: those some selection names, of a player
\* with a stored prompt.
scoredImages(round) ==
    { img \in DOMAIN round.guesses :
        /\ findSelection(round.selections, img) # << >>
        /\ findSelection(round.selections, img)[1].playerId \in DOMAIN round.prompts }

imageCreatorId(round, img) == findSelection(round.selections, img)[1].playerId

scoredGuesses(round, img) ==
    [ p \in DOMAIN round.guesses[img] |->
        calculateSimilarityScore(round.prompts[imageCreatorId(round, img)].prompt,
                                 round.guesses[img][p].guessText) ]

pointsAwarded(round, img) ==
    calculatePoints(scoredGuesses(round, img), imageCreatorId(round, img))

RECURSIVE sumPoints(_, _, _)
\* currentRound.scores.get(playerId) after the loop over the images in S
sumPoints(round, S, p) ==
    IF S = {} THEN 0
    ELSE LET img == CHOOSE x \in S : TRUE
         IN  (IF p \in DOMAIN pointsAwarded(round, img)
                THEN pointsAwarded(round, img)[p] ELSE 0)
             + sumPoints(round, S \ {img}, p)

roundScores(round) ==
    [ p \in UNION { DOMAIN pointsAwarded(round, img) : img \in scoredImages(round) } |->
        sumPoints(round, scoredImages(round), p) ]

RECURSIVE addMissing(_, _)
\* Leaderboard entries created for scorers the leaderboard does not hold.
addMissing(scores, S) ==
    IF S = {} THEN scores
    ELSE LET p == CHOOSE x \in S : \A y \in S : x <= y
         IN  addMissing(Append(scores, [ playerId |-> p, totalScore |-> 0,
                                         roundScores |-> << >> ]),
                        S \ {p})

updateLeaderboard(scores, rs) ==
    LET all == addMissing(scores,
                   (DOMAIN rs) \ { scores[i].playerId : i \in DOMAIN scores })
    IN  [ i \in DOMAIN all |->
            IF all[i].playerId \in DOMAIN rs
              THEN [ all[i] EXCEPT !.totalScore = @ + rs[all[i].playerId],
                                   !.roundScores = Append(@, rs[all[i].playerId]) ]
              ELSE all[i] ]

\* An insertion that puts x before the entries of equal totalScore.
insertByTotalScore_TiesFirst(sorted, x) ==
    LET k == Cardinality({ i \in DOMAIN sorted : sorted[i].totalScore > x.totalScore })
    IN  SubSeq(sorted, 1, k) \o << x >> \o SubSeq(sorted, k + 1, Len(sorted))

\* Where x goes in a sequence sorted by totalScore, highest first: behind
\* every entry that does not score less (the sort is stable).
insertByTotalScore(sorted, x) ==
    LET k == Cardinality({ i \in DOMAIN sorted : sorted[i].totalScore >= x.totalScore })
    IN  SubSeq(sorted, 1, k) \o << x >> \o SubSeq(sorted, k + 1, Len(sorted))

RECURSIVE sortByTotalScore(_)
sortByTotalScore(seq) ==
    IF seq = << >> THEN << >>
    ELSE insertByTotalScore(sortByTotalScore(SubSeq(seq, 1, Len(seq) - 1)),
                            seq[Len(seq)])

\* scoreRound without its test of the round's status.
scoreRoundAllowed_Any(room) == room.game # NoGame

scoreRoundAllowed(room) == getCurrentRound(room.game).status = "scoring"

scoreRound(room) ==
    LET currentRound == getCurrentRound(room.game)
        S == scoredImages(currentRound)
        guesses == [ img \in DOMAIN currentRound.guesses |->
                       IF img \in S
                         THEN [ p \in DOMAIN currentRound.guesses[img] |->
                                  [ currentRound.guesses[img][p] EXCEPT
                                      !.score = << scoredGuesses(currentRound, img)[p] >> ] ]
                         ELSE currentRound.guesses[img] ]
        bonusPoints == [ img \in (DOMAIN currentRound.bonusPoints)
                                   \cup { x \in S : tricky(scoredGuesses(currentRound, x)) } |->
                           IF img \in S /\ tricky(scoredGuesses(currentRound, img))
                             THEN 50 ELSE currentRound.bonusPoints[img] ]
        rs == roundScores(currentRound)
        scores == updateLeaderboard(room.game.leaderboard.scores, rs)
        sorted == sortByTotalScore(scores)
        r == [ currentRound EXCEPT !.guesses = guesses, !.bonusPoints = bonusPoints,
                                   !.scores = rs ]
        scored == withPhase(room, r, "reveal_results")
    IN  [ scored EXCEPT !.game.leaderboard =
            [ scores |-> scores,
              rankings |-> [ i \in DOMAIN sorted |-> sorted[i].playerId ] ] ]

\* handleSubmitGuess after submitGuess moved the round to scoring: scoreRound
\* reads the room again.
ScoreRoundBegin(s) ==
    /\ cmd[s].op = "submitGuess"
    /\ cmd[s].pc = "scoreRound"
    /\ IF scoreRoundAllowed(getRoomById)
         THEN /\ cmd' = [ cmd EXCEPT ![s] =
                    Handler("scoreRound", "updateRoom", cmd[s].player,
                            scoreRound(getRoomById), TRUE) ]
              /\ UNCHANGED sent
         ELSE /\ cmd' = [ cmd EXCEPT ![s] = Idle ]
              /\ sent' = emit(sent, ErrorTo(cmd[s].player, "SUBMIT_GUESS_FAILED"))
    /\ UNCHANGED << store, gen, calls, issued, clock, keys, fallbackProviderInstance, redis >>

ScoreRoundEnd(s) ==
    /\ cmd[s].op = "scoreRound"
    /\ cmd[s].pc = "updateRoom"
    /\ store' = cmd[s].room
    /\ cmd' = [ cmd EXCEPT ![s] = Idle ]
    /\ sent' = emit(sent, PhaseTransition(cmd[s].room.game.status))
    /\ UNCHANGED << gen, calls, issued, clock, keys, fallbackProviderInstance, redis >>

\* ------------------------------------------------------------------- lobby
\* Settings a client sends with POST /rooms/create: none.
NoSettings == << >>

\* The room createRoom saves.  maxPlayers is the room's capacity.
createRoom(playerId, now, settings) ==
    [ status |-> "lobby",
      hostId |-> playerId,
      players |-> << hostPlayer(playerId, now) >>,
      maxPlayers |-> MaxPlayers,
      settings |-> settings @@ DEFAULT_SETTINGS,
      game |-> NoGame ]

\* joinRoom without its test of the room's capacity.
joinRoomError_NoCapacity(room) ==
    IF room = NoRoom THEN "Room not found"
    ELSE IF room.status # "lobby" THEN "Game already in progress"
    ELSE ""

\* The error joinRoom throws for the room it read, "" when it throws none.
joinRoomError(room) ==
    IF room = NoRoom THEN "Room not found"
    ELSE IF room.status # "lobby" THEN "Game already in progress"
    ELSE IF Len(room.players) >= room.maxPlayers THEN "Room is full"
    ELSE ""

joinRoom(room, playerId, now) ==
    [ room EXCEPT !.players = Append(@, player(playerId, now)) ]

\* room.players.get(playerId) is defined
hasPlayer(room, playerId) == room # NoRoom /\ playerId \in playerIdsOf(room)

playerOf(room, playerId) ==
    room.players[CHOOSE i \in DOMAIN room.players : room.players[i].id = playerId]

\* players.set on an existing key: the player keeps its place.
setPlayer(room, pl) ==
    [ room EXCEPT !.players =
        [ i \in DOMAIN @ |-> IF @[i].id = pl.id THEN pl ELSE @[i] ] ]

setPlayerReady(room, playerId, isReady) ==
    setPlayer(room, [ playerOf(room, playerId) EXCEPT !.isReady = isReady ])

updatePlayerConnection(room, playerId, isConnected, now) ==
    setPlayer(room, [ playerOf(room, playerId) EXCEPT
                        !.isConnected = isConnected, !.lastSeenAt = now ])

\* sortedPlayers[0]: the sort by joinedAt is stable, so among the players that
\* joined earliest the first in the Map's order.
earliestJoined(players) ==
    players[CHOOSE i \in DOMAIN players :
               /\ \A j \in DOMAIN players : players[i].joinedAt <= players[j].joinedAt
               /\ \A j \in DOMAIN players :
                     players[j].joinedAt = players[i].joinedAt => i <= j]

\* The variant that promotes the player who joined last.
promoted_Latest(players) == players[Len(players)]

promoted(players) == earliestJoined(players)

\* removePlayer without the host migration.
removePlayer_NoMigration(room, playerId) ==
    [ room EXCEPT !.players = SelectSeq(@, LAMBDA q : q.id # playerId) ]

\* The copy removePlayer is left with; its players are empty when the room is
\* to be deleted.
removePlayer(room, playerId) ==
    LET removed == playerOf(room, playerId)
        remaining == SelectSeq(room.players, LAMBDA q : q.id # playerId)
        left == [ room EXCEPT !.players = remaining ]
    IN  IF remaining # << >> /\ removed.isHost
          THEN [ setPlayer(left, [ promoted(remaining) EXCEPT !.isHost = TRUE ])
                   EXCEPT !.hostId = promoted(remaining).id ]
          ELSE left

\* Whether removePlayer returns a newHostId (it is then the copy's hostId).
removePlayerPromotes(room, playerId) ==
    /\ Len(room.players) > 1
    /\ playerOf(room, playerId).isHost

HttpError(message) == Event("http_error", 0, 0, message)
Thrown(message) == Event("throw", 0, 0, message)
PlayerReadyChanged(p, isReady) ==
    Event("player_ready_changed", 0, p, IF isReady THEN "true" ELSE "false")
RoomUpdate(to) == Event("room_update", to, 0, "")
PlayerJoined(p) == Event("player_joined", 0, p, "")
PlayerLeft(p) == Event("player_left", 0, p, "disconnect")
GameStarted == Event("game_started", 0, 0, "")

\* Player ids a command may carry: the players of the stored room, and an id
\* of no player.
KnownIds == IF store = NoRoom THEN {0} ELSE playerIdsOf(store) \cup {0}

\* updateRoom: the write is refused when room:{id} holds nothing.
UpdateRoom(s) ==
    IF roomExists THEN store' = cmd[s].room ELSE UNCHANGED store

\* POST /rooms/join up to the await of updateRoom inside joinRoom.  The new
\* player's uuid is a number no other player has.
JoinRoomBegin(s) ==
    /\ FreeSlot(s)
    /\ issued < MaxLobbyCmds
    /\ issued' = issued + 1
    /\ IF joinRoomError(getRoomByCode) = ""
         THEN /\ cmd' = [ cmd EXCEPT ![s] =
                    Handler("joinRoom", "updateRoom", issued + NumPlayers + 1,
                            joinRoom(getRoomByCode, issued + NumPlayers + 1, clock), FALSE) ]
              /\ UNCHANGED sent
         ELSE /\ sent' = emit(sent, HttpError(joinRoomError(getRoomByCode)))
              /\ UNCHANGED cmd
    /\ UNCHANGED << store, gen, calls, clock, keys, fallbackProviderInstance, redis >>

JoinRoomEnd(s) ==
    /\ cmd[s].op = "joinRoom"
    /\ cmd[s].pc = "updateRoom"
    /\ UpdateRoom(s)
    /\ cmd' = [ cmd EXCEPT ![s] = Idle ]
    /\ sent' = IF roomExists THEN sent ELSE emit(sent, HttpError("Failed to join room"))
    /\ UNCHANGED << gen, calls, issued, clock, keys, fallbackProviderInstance, redis >>

\* handlePlayerReady up to the await of updateRoom inside setPlayerReady.
SetPlayerReadyBegin(s, p, isReady) ==
    /\ FreeSlot(s)
    /\ issued < MaxLobbyCmds
    /\ issued' = issued + 1
    /\ IF hasPlayer(getRoomById, p)
         THEN /\ cmd' = [ cmd EXCEPT ![s] =
                    Handler("setPlayerReady", "updateRoom", p,
                            setPlayerReady(getRoomById, p, isReady), isReady) ]
              /\ UNCHANGED sent
         ELSE /\ sent' = emit(sent, ErrorTo(p, "READY_FAILED"))
              /\ UNCHANGED cmd
    /\ UNCHANGED << store, gen, calls, clock, keys, fallbackProviderInstance, redis >>

SetPlayerReadyEnd(s) ==
    /\ cmd[s].op = "setPlayerReady"
    /\ cmd[s].pc = "updateRoom"
    /\ UpdateRoom(s)
    /\ cmd' = [ cmd EXCEPT ![s] = Idle ]
    /\ sent' = IF roomExists
                 THEN emit(emit(sent, PlayerReadyChanged(cmd[s].player, cmd[s].flag)),
                           RoomUpdate(0))
                 ELSE emit(sent, ErrorTo(cmd[s].player, "READY_FAILED"))
    /\ UNCHANGED << gen, calls, issued, clock, keys, fallbackProviderInstance, redis >>

\* handleJoinRoom (isConnected) or handleDisconnect (not isConnected) up to
\* the await of updateRoom inside updatePlayerConnection.
UpdateConnectionBegin(s, p, isConnected) ==
    /\ FreeSlot(s)
    /\ issued < MaxLobbyCmds
    /\ issued' = issued + 1
    /\ IF hasPlayer(getRoomById, p)
         THEN /\ cmd' = [ cmd EXCEPT ![s] =
                    Handler("updatePlayerConnection", "updateRoom", p,
                            updatePlayerConnection(getRoomById, p, isConnected, clock),
                            isConnected) ]
              /\ UNCHANGED sent
         ELSE /\ sent' = IF ~ isConnected THEN sent
                         ELSE IF getRoomById = NoRoom
                           THEN emit(sent, ErrorTo(p, "ROOM_NOT_FOUND"))
                           ELSE emit(sent, ErrorTo(p, "PLAYER_NOT_IN_ROOM"))
              /\ UNCHANGED cmd
    /\ UNCHANGED << store, gen, calls, clock, keys, fallbackProviderInstance, redis >>

UpdateConnectionEnd(s) ==
    /\ cmd[s].op = "updatePlayerConnection"
    /\ cmd[s].pc = "updateRoom"
    /\ UpdateRoom(s)
    /\ cmd' = [ cmd EXCEPT ![s] = Idle ]
    /\ sent' = IF cmd[s].flag
                 THEN IF roomExists
                        THEN emit(emit(sent, RoomUpdate(cmd[s].player)),
                                  PlayerJoined(cmd[s].player))
                        ELSE emit(sent, ErrorTo(cmd[s].player, "JOIN_FAILED"))
                 ELSE IF roomExists
                        THEN emit(emit(sent, PlayerLeft(cmd[s].player)), RoomUpdate(0))
                        ELSE sent
    /\ UNCHANGED << gen, calls, issued, clock, keys, fallbackProviderInstance, redis >>

\* removePlayer up to its await of deleteRoom or updateRoom.  flag is whether
\* it will return a newHostId.
RemovePlayerBegin(s, p) ==
    /\ FreeSlot(s)
    /\ issued < MaxLobbyCmds
    /\ issued' = issued + 1
    /\ IF hasPlayer(getRoomById, p)
         THEN /\ cmd' = [ cmd EXCEPT ![s] =
                    Handler("removePlayer",
                            IF removePlayer(getRoomById, p).players = << >>
                              THEN "deleteRoom" ELSE "updateRoom",
                            p, removePlayer(getRoomById, p),
                            removePlayerPromotes(getRoomById, p)) ]
              /\ UNCHANGED sent
         ELSE /\ sent' = emit(sent, Thrown(IF getRoomById = NoRoom
                                             THEN "Room not found"
                                             ELSE "Player not found in room"))
              /\ UNCHANGED cmd
    /\ UNCHANGED << store, gen, calls, clock, keys, fallbackProviderInstance, redis >>

\* deleteRoom: the room key, the code index and the active_rooms member go.
RemovePlayerDelete(s) ==
    /\ cmd[s].op = "removePlayer"
    /\ cmd[s].pc = "deleteRoom"
    /\ store' = NoRoom
    /\ keys' = NoKeys
    /\ cmd' = [ cmd EXCEPT ![s] = Idle ]
    /\ UNCHANGED << gen, sent, calls, issued, clock, fallbackProviderInstance, redis >>

RemovePlayerEnd(s) ==
    /\ cmd[s].op = "removePlayer"
    /\ cmd[s].pc = "updateRoom"
    /\ UpdateRoom(s)
    /\ cmd' = [ cmd EXCEPT ![s] = Idle ]
    /\ sent' = IF roomExists THEN sent ELSE emit(sent, Thrown("Room does not exist"))
    /\ UNCHANGED << gen, calls, issued, clock, keys, fallbackProviderInstance, redis >>

\* The error code handleStartGame answers for the room it read, "" when its
\* checks pass.
handleStartGameError(room, playerId) ==
    IF room = NoRoom THEN "ROOM_NOT_FOUND"
    ELSE IF ~ (hasPlayer(room, playerId) /\ playerOf(room, playerId).isHost)
      THEN "NOT_HOST"
    ELSE IF Len(room.players) < 2 THEN "NOT_ENOUGH_PLAYERS"
    ELSE IF \E i \in DOMAIN room.players : ~ room.players[i].isReady
      THEN "PLAYERS_NOT_READY"
    ELSE ""

\* startGame's own test of the room it read.
startGameAllowed(room) == room # NoRoom /\ room.status = "lobby"

\* handleStartGame: the gateway's checks on its own read of the room.
StartGameBegin(s, p) ==
    /\ FreeSlot(s)
    /\ issued < MaxLobbyCmds
    /\ issued' = issued + 1
    /\ IF handleStartGameError(getRoomById, p) = ""
         THEN /\ cmd' = [ cmd EXCEPT ![s] =
                    Handler("startGame", "getRoomById", p, NoGame, FALSE) ]
              /\ UNCHANGED sent
         ELSE /\ sent' = emit(sent, ErrorTo(p, handleStartGameError(getRoomById, p)))
              /\ UNCHANGED cmd
    /\ UNCHANGED << store, gen, calls, clock, keys, fallbackProviderInstance, redis >>

\* startGame reads the room again and builds the game on that copy.
StartGameRead(s) ==
    /\ cmd[s].op = "startGame"
    /\ cmd[s].pc = "getRoomById"
    /\ IF startGameAllowed(getRoomById)
         THEN /\ cmd' = [ cmd EXCEPT ![s].pc = "updateRoom",
                                     ![s].room = startGame(getRoomById, clock) ]
              /\ UNCHANGED sent
         ELSE /\ cmd' = [ cmd EXCEPT ![s] = Idle ]
              /\ sent' = emit(sent, ErrorTo(cmd[s].player, "START_GAME_FAILED"))
    /\ UNCHANGED << store, gen, calls, issued, clock, keys, fallbackProviderInstance, redis >>

StartGameEnd(s) ==
    /\ cmd[s].op = "startGame"
    /\ cmd[s].pc = "updateRoom"
    /\ UpdateRoom(s)
    /\ cmd' = [ cmd EXCEPT ![s] = Idle ]
    /\ sent' = IF roomExists THEN emit(sent, GameStarted)
                             ELSE emit(sent, ErrorTo(cmd[s].player, "START_GAME_FAILED"))
    /\ UNCHANGED << gen, calls, issued, clock, keys, fallbackProviderInstance, redis >>

\* ---------------------------------------------- completeReveal, next round
\* completeReveal without its guard on the game's status.
completeReveal_NoGuard(room, now) ==
    LET r == [ getCurrentRound(room.game) EXCEPT !.status = "completed",
                                                 !.finishedAt = now ]
        done == withRound(room, r)
    IN  IF room.game.currentRound >= room.settings.roundCount
          THEN [ done EXCEPT !.game.status = "game_end", !.game.finishedAt = now ]
          ELSE [ done EXCEPT !.game.status = "round_end" ]

\* The room completeReveal returns; outside reveal_results it is the room read.
completeReveal(room, now) ==
    IF room.game.status # "reveal_results" THEN room
    ELSE LET r == [ getCurrentRound(room.game) EXCEPT !.status = "completed",
                                                      !.finishedAt = now ]
             done == withRound(room, r)
         IN  IF room.game.currentRound >= room.settings.roundCount
               THEN [ done EXCEPT !.game.status = "game_end", !.game.finishedAt = now ]
               ELSE [ done EXCEPT !.game.status = "round_end" ]

\* handleCompleteReveal up to the return of completeReveal, or to the await
\* of its updateRoom.
CompleteRevealBegin(s, p) ==
    /\ FreeSlot(s)
    /\ issued < MaxRoundCmds
    /\ issued' = issued + 1
    /\ IF hasPlayer(getRoomById, p) /\ getRoomById.game # NoGame
         THEN /\ cmd' = [ cmd EXCEPT ![s] =
                    Handler("completeReveal",
                            IF getRoomById.game.status = "reveal_results"
                              THEN "updateRoom" ELSE "emit",
                            p, completeReveal(getRoomById, clock), FALSE) ]
              /\ UNCHANGED sent
         ELSE /\ sent' = emit(sent, ErrorTo(p, "COMPLETE_REVEAL_FAILED"))
              /\ UNCHANGED cmd
    /\ UNCHANGED << store, gen, calls, clock, keys, fallbackProviderInstance, redis >>

\* completeReveal's updateRoom, when it made a change; the handler then
\* broadcasts the phase of the room completeReveal returned.
CompleteRevealEnd(s) ==
    /\ cmd[s].op = "completeReveal"
    /\ IF cmd[s].pc = "updateRoom" THEN UpdateRoom(s) ELSE UNCHANGED store
    /\ cmd' = [ cmd EXCEPT ![s] = Idle ]
    /\ sent' = IF cmd[s].pc = "updateRoom" /\ ~ roomExists
                 THEN emit(sent, ErrorTo(cmd[s].player, "COMPLETE_REVEAL_FAILED"))
                 ELSE emit(sent, PhaseTransition(cmd[s].room.game.status))
    /\ UNCHANGED << gen, calls, issued, clock, keys, fallbackProviderInstance, redis >>

\* The directions of a navigate_result command.
Directions == { "next", "previous" }

navigateResultAllowed(room) == room.game.status = "reveal_results"

\* navigateResult without the tests that keep the index in range.
navigateResult_NoClamp(room, direction) ==
    LET currentRound == getCurrentRound(room.game)
    IN  withRound(room,
          [ currentRound EXCEPT !.currentResultIndex =
              IF direction = "next" THEN @ + 1 ELSE @ - 1 ])

\* The room navigateResult stores: the result index moved by one towards the
\* direction unless it is at that end already.
navigateResult(room, direction) ==
    LET currentRound == getCurrentRound(room.game)
        totalImages == Len(currentRound.selections)
    IN  withRound(room,
          [ currentRound EXCEPT !.currentResultIndex =
              IF direction = "next"
                THEN IF @ < totalImages - 1 THEN @ + 1 ELSE @
                ELSE IF @ > 0 THEN @ - 1 ELSE @ ])

\* handleNavigateResult up to the await of updateRoom inside navigateResult;
\* the handler's flag records that the direction is next.
NavigateResultBegin(s, p, direction) ==
    /\ FreeSlot(s)
    /\ issued < MaxRoundCmds
    /\ issued' = issued + 1
    /\ IF /\ hasPlayer(getRoomById, p)
          /\ getRoomById.game # NoGame
          /\ navigateResultAllowed(getRoomById)
         THEN /\ cmd' = [ cmd EXCEPT ![s] =
                    Handler("navigateResult", "updateRoom", p,
                            navigateResult(getRoomById, direction),
                            direction = "next") ]
              /\ UNCHANGED sent
         ELSE /\ sent' = emit(sent, ErrorTo(p, "NAVIGATE_RESULT_FAILED"))
              /\ UNCHANGED cmd
    /\ UNCHANGED << store, gen, calls, clock, keys, fallbackProviderInstance, redis >>

NavigateResultEnd(s) ==
    /\ cmd[s].op = "navigateResult"
    /\ cmd[s].pc = "updateRoom"
    /\ UpdateRoom(s)
    /\ cmd' = [ cmd EXCEPT ![s] = Idle ]
    /\ sent' = IF roomExists
                 THEN emit(sent, PhaseTransition(cmd[s].room.game.status))
                 ELSE emit(sent, ErrorTo(cmd[s].player, "NAVIGATE_RESULT_FAILED"))
    /\ UNCHANGED << gen, calls, issued, clock, keys, fallbackProviderInstance, redis >>

\* startNextRound without validateHost.
startNextRoundError_AnyCaller(room, hostId) ==
    IF room = NoRoom THEN "Room not found"
    ELSE IF room.game = NoGame THEN "No active game"
    ELSE IF room.game.status # "round_end"
      THEN "Cannot start next round - game is not in round_end status"
    ELSE IF room.game.currentRound >= room.settings.roundCount
      THEN "No more rounds to play - game is complete"
    ELSE ""

\* The message startNextRound throws for the room it read, "" when none.
startNextRoundError(room, hostId) ==
    IF room = NoRoom THEN "Room not found"
    ELSE IF room.game = NoGame THEN "No active game"
    ELSE IF ~ (hasPlayer(room, hostId) /\ playerOf(room, hostId).isHost)
      THEN "Only the host can perform this action"
    ELSE IF room.game.status # "round_end"
      THEN "Cannot start next round - game is not in round_end status"
    ELSE IF room.game.currentRound >= room.settings.roundCount
      THEN "No more rounds to play - game is complete"
    ELSE ""

startNextRound(room, now) ==
    [ room EXCEPT !.game.currentRound = @ + 1,
                  !.game.rounds = Append(@, newRound(room.game.currentRound + 1, now)),
                  !.game.status = "prompt_submit" ]

\* handleNextRound up to the await of updateRoom inside startNextRound.
NextRoundBegin(s, p) ==
    /\ FreeSlot(s)
    /\ issued < MaxRoundCmds
    /\ issued' = issued + 1
    /\ IF hasPlayer(getRoomById, p) /\ startNextRoundError(getRoomById, p) = ""
         THEN /\ cmd' = [ cmd EXCEPT ![s] =
                    Handler("startNextRound", "updateRoom", p,
                            startNextRound(getRoomById, clock), FALSE) ]
              /\ UNCHANGED sent
         ELSE /\ sent' = emit(sent, ErrorTo(p, "NEXT_ROUND_FAILED"))
              /\ UNCHANGED cmd
    /\ UNCHANGED << store, gen, calls, clock, keys, fallbackProviderInstance, redis >>

NextRoundEnd(s) ==
    /\ cmd[s].op = "startNextRound"
    /\ cmd[s].pc = "updateRoom"
    /\ UpdateRoom(s)
    /\ cmd' = [ cmd EXCEPT ![s] = Idle ]
    /\ sent' = IF roomExists
                 THEN emit(sent, PhaseTransition(cmd[s].room.game.status))
                 ELSE emit(sent, ErrorTo(cmd[s].player, "NEXT_ROUND_FAILED"))
    /\ UNCHANGED << gen, calls, issued, clock, keys, fallbackProviderInstance, redis >>

\* ------------------------------------------------------ prompt_submit runs
InitPrompt ==
    /\ store = startGame(ReadyLobby, 0)
    /\ cmd = [ s \in Slots |-> Idle ]
    /\ gen = NoGen
    /\ sent = EmptyBag
    /\ calls = EmptyBag
    /\ issued = 0
    /\ clock = 0
    /\ keys = LiveKeys
    /\ fallbackProviderInstance = NoProvider
    /\ redis = NoRedis

NextPrompt ==
    \/ Tick
    \/ \E s \in Slots, p \in PlayerIds, t \in Texts : SubmitPromptBegin(s, p, t)
    \/ \E s \in Slots : SubmitPromptEnd(s)

SpecPrompt == InitPrompt /\ [][NextPrompt]_vars

\* The same commands, taken one at a time: a command is received only when no
\* other handler is in flight (the per-room FIFO the design asks for).
NoneInFlight == \A s \in Slots : cmd[s].op = "idle"

NextPromptSerial ==
    \/ Tick
    \/ /\ NoneInFlight
       /\ \E p \in PlayerIds, t \in Texts : SubmitPromptBegin(1, p, t)
    \/ SubmitPromptEnd(1)

SpecPromptSerial == InitPrompt /\ [][NextPromptSerial]_vars

\* ----------------------------------------------------- image_generate runs
RECURSIVE afterSubmits(_, _)
\* The room after players 1..n each submitted a prompt.
afterSubmits(room, n) ==
    IF n = 0 THEN room
    ELSE submitPrompt(afterSubmits(room, n - 1), n, <<"a", " ", "b">>, 0)

\* The state the last submitPrompt command leaves: every prompt pending, the
\* round in image_generate, generateImagesInBackground called once.
InitGen ==
    /\ store = afterSubmits(startGame(ReadyLobby, 0), NumPlayers)
    /\ cmd = [ s \in Slots |-> Idle ]
    /\ gen = [ NoGen EXCEPT !.pending = 1 ]
    /\ sent = emitAll(emit(EmptyBag, PhaseTransition("image_generate")),
                      { PromptSubmitted(p) : p \in PlayerIds })
    /\ calls = EmptyBag
    /\ issued = 0
    /\ clock = 0
    /\ keys = LiveKeys
    /\ fallbackProviderInstance = NoProvider
    /\ redis = NoRedis

\* Time stands still in these runs: the only timestamp taken is the
\* submittedAt of a resubmission.
NextGen ==
    \/ GenStart
    \/ \E p \in PlayerIds, o \in Outcomes : GenTaskDone(p, o)
    \/ \E p \in PlayerIds : GenProgress(p)
    \/ GenFinish(OwnSockets)
    \/ \E s \in Slots, p \in PlayerIds, t \in Texts : ResubmitBegin(s, p, t)
    \/ \E s \in Slots : ResubmitSaveGenerating(s)
    \/ \E s \in Slots, o \in Outcomes : ResubmitFinish(s, o)

SpecGen == InitGen /\ [][NextGen]_vars

\* The same runs with the resubmissions taken one at a time, after the
\* orchestrator has finished.
NextGenSerial ==
    \/ GenStart
    \/ \E p \in PlayerIds, o \in Outcomes : GenTaskDone(p, o)
    \/ \E p \in PlayerIds : GenProgress(p)
    \/ GenFinish(OwnSockets)
    \/ /\ gen.pc = "idle"
       /\ gen.pending = 0
       /\ NoneInFlight
       /\ \E p \in PlayerIds, t \in Texts : ResubmitBegin(1, p, t)
    \/ ResubmitSaveGenerating(1)
    \/ \E o \in Outcomes : ResubmitFinish(1, o)

SpecGenSerial == InitGen /\ [][NextGenSerial]_vars

\* -------------------------------------------------------- notification runs
\* The generation runs with any sessions joined to the room.
NextNotify ==
    \/ GenStart
    \/ \E p \in PlayerIds, o \in Outcomes : GenTaskDone(p, o)
    \/ \E p \in PlayerIds : GenProgress(p)
    \/ \E playerSockets \in SocketLists : GenFinish(playerSockets)
    \/ \E s \in Slots, p \in PlayerIds, t \in Texts : ResubmitBegin(s, p, t)
    \/ \E s \in Slots : ResubmitSaveGenerating(s)
    \/ \E s \in Slots, o \in Outcomes : ResubmitFinish(s, o)

SpecNotify == InitGen /\ [][NextNotify]_vars

\* ------------------------------------------------------------ reveal runs
RECURSIVE afterGeneration(_, _)
\* The room after the tasks of players 1..n each produced their images.
afterGeneration(room, n) ==
    IF n = 0 THEN room
    ELSE taskResult(afterGeneration(room, n - 1), n, "ok")

\* The state a generation that produced every image leaves: every submission
\* ready, the round in image_select.
InitReveal ==
    /\ store = generateImagesForRoundResult(
                   afterGeneration(afterSubmits(startGame(ReadyLobby, 0), NumPlayers),
                                   NumPlayers),
                   {})
    /\ cmd = [ s \in Slots |-> Idle ]
    /\ gen = NoGen
    /\ sent = EmptyBag
    /\ calls = EmptyBag
    /\ issued = 0
    /\ clock = 0
    /\ keys = LiveKeys
    /\ fallbackProviderInstance = NoProvider
    /\ redis = NoRedis

\* One command at a time: a command is handled to its end before the next
\* one arrives.
NextReveal ==
    \/ Tick
    \/ NoneInFlight /\ \E p \in PlayerIds, img \in ImageIds : SelectImageBegin(1, p, img)
    \/ SelectImageEnd(1)
    \/ NoneInFlight /\ \E p \in PlayerIds, img \in ImageIds, t \in Texts :
                           SubmitGuessBegin(1, p, img, t)
    \/ SubmitGuessEnd(1)
    \/ ScoreRoundBegin(1)
    \/ ScoreRoundEnd(1)

SpecReveal == InitReveal /\ [][NextReveal]_vars

\* -------------------------------------------------------------- lobby runs
\* A room as createRoom leaves it, its creator the host, or a lobby whose
\* players have all joined and are ready.
InitLobby ==
    /\ store \in { createRoom(1, 0, NoSettings), ReadyLobby }
    /\ cmd = [ s \in Slots |-> Idle ]
    /\ gen = NoGen
    /\ sent = EmptyBag
    /\ calls = EmptyBag
    /\ issued = 0
    /\ clock = 0
    /\ keys = LiveKeys
    /\ fallbackProviderInstance = NoProvider
    /\ redis = NoRedis

NextLobby ==
    \/ Tick
    \/ \E s \in Slots : JoinRoomBegin(s)
    \/ \E s \in Slots : JoinRoomEnd(s)
    \/ \E s \in Slots, p \in KnownIds, b \in BOOLEAN : SetPlayerReadyBegin(s, p, b)
    \/ \E s \in Slots : SetPlayerReadyEnd(s)
    \/ \E s \in Slots, p \in KnownIds, b \in BOOLEAN : UpdateConnectionBegin(s, p, b)
    \/ \E s \in Slots : UpdateConnectionEnd(s)
    \/ \E s \in Slots, p \in KnownIds : RemovePlayerBegin(s, p)
    \/ \E s \in Slots : RemovePlayerDelete(s)
    \/ \E s \in Slots : RemovePlayerEnd(s)
    \/ \E s \in Slots, p \in KnownIds : StartGameBegin(s, p)
    \/ \E s \in Slots : StartGameRead(s)
    \/ \E s \in Slots : StartGameEnd(s)

SpecLobby == InitLobby /\ [][NextLobby]_vars

\* -------------------------------------------------------------- round runs
\* Settings a client may send with POST /rooms/create; none are validated.
SettingsSent == { [ roundCount |-> n ] : n \in 0..MaxRoundCount }

RECURSIVE afterSelections(_, _)
\* The room after players 1..n each selected the first of their images.
afterSelections(room, n) ==
    IF n = 0 THEN room
    ELSE selectImage(afterSelections(room, n - 1), n, << n, 1 >>, 0)

RECURSIVE afterGuesses(_, _)
\* The room after the first m of the guesses of a round, taken image by image
\* in the order of reveal, each image guessed by every player but its own.
afterGuesses(room, m) ==
    IF m = 0 THEN room
    ELSE LET i == ((m - 1) \div NumPlayers) + 1
             g == ((m - 1) % NumPlayers) + 1
             prev == afterGuesses(room, m - 1)
         IN  IF g = i THEN prev
             ELSE submitGuess(prev, g, << i, 1 >>, << "c" >>, 0)

\* A round played from prompt_submit until its last guess moved it to scoring.
playRound(room) ==
    afterGuesses(
      afterSelections(
        generateImagesForRoundResult(
          afterGeneration(afterSubmits(room, NumPlayers), NumPlayers), {}),
        NumPlayers),
      NumPlayers * NumPlayers)

\* The commands of a whole round, from the first submit_prompt to the last
\* submit_guess, handled one after the other while the stored game waits in
\* prompt_submit; the handler of the last guess is left about to call
\* scoreRound. (The broadcasts of these commands are not recorded.)
PlayRound(s) ==
    /\ FreeSlot(s)
    /\ roomExists
    /\ store.game # NoGame
    /\ store.game.status = "prompt_submit"
    /\ store' = playRound(store)
    /\ cmd' = [ cmd EXCEPT ![s] =
                  Handler("submitGuess", "scoreRound", NumPlayers, store', TRUE) ]
    /\ UNCHANGED << gen, sent, calls, issued, clock, keys, fallbackProviderInstance, redis >>

\* A game started on a room created with some settings; its first round is
\* about to be played.
InitRounds ==
    /\ \E st \in SettingsSent :
          store = startGame([ ReadyLobby EXCEPT !.settings = st @@ DEFAULT_SETTINGS ], 0)
    /\ cmd = [ s \in Slots |-> Idle ]
    /\ gen = NoGen
    /\ sent = EmptyBag
    /\ calls = EmptyBag
    /\ issued = 0
    /\ clock = 0
    /\ keys = LiveKeys
    /\ fallbackProviderInstance = NoProvider
    /\ redis = NoRedis

NextRounds ==
    \/ Tick
    \/ \E s \in Slots : PlayRound(s)
    \/ \E s \in Slots : ScoreRoundBegin(s)
    \/ \E s \in Slots : ScoreRoundEnd(s)
    \/ \E s \in Slots, p \in PlayerIds : CompleteRevealBegin(s, p)
    \/ \E s \in Slots : CompleteRevealEnd(s)
    \/ \E s \in Slots, p \in PlayerIds : NextRoundBegin(s, p)
    \/ \E s \in Slots : NextRoundEnd(s)
    \/ \E s \in Slots, p \in PlayerIds, dir \in Directions : NavigateResultBegin(s, p, dir)
    \/ \E s \in Slots : NavigateResultEnd(s)

SpecRounds == InitRounds /\ [][NextRounds]_vars

\* The same commands, one handler at a time.
NextRoundsSerial ==
    \/ PlayRound(1)
    \/ ScoreRoundBegin(1)
    \/ ScoreRoundEnd(1)
    \/ \E p \in PlayerIds : CompleteRevealBegin(1, p)
    \/ CompleteRevealEnd(1)
    \/ \E p \in PlayerIds : NextRoundBegin(1, p)
    \/ NextRoundEnd(1)
    \/ \E p \in PlayerIds, dir \in Directions : NavigateResultBegin(1, p, dir)
    \/ NavigateResultEnd(1)

SpecRoundsSerial == InitRounds /\ [][NextRoundsSerial]_vars

\* ----------------------------------------------------------- degraded runs
RECURSIVE afterGenerationOf(_, _, _)
\* The room after the tasks of players 1..n each ended as outcomeOf says.
afterGenerationOf(room, n, outcomeOf) ==
    IF n = 0 THEN room
    ELSE taskResult(afterGenerationOf(room, n - 1, outcomeOf), n, outcomeOf[n])

\* The state a generation leaves in which no prompt was rejected and at least
\* one task failed: the round in image_select, the failed submissions
\* without images.
InitDegraded ==
    /\ \E outcomeOf \in [ PlayerIds -> { "ok", "fail" } ] :
          /\ \E p \in PlayerIds : outcomeOf[p] = "fail"
          /\ store = generateImagesForRoundResult(
                         afterGenerationOf(
                             afterSubmits(startGame(ReadyLobby, 0), NumPlayers),
                             NumPlayers, outcomeOf),
                         {})
    /\ cmd = [ s \in Slots |-> Idle ]
    /\ gen = NoGen
    /\ sent = EmptyBag
    /\ calls = EmptyBag
    /\ issued = 0
    /\ clock = 0
    /\ keys = LiveKeys
    /\ fallbackProviderInstance = NoProvider
    /\ redis = NoRedis

\* One command at a time, the clock standing still.
NextDegraded ==
    \/ \E p \in PlayerIds, img \in ImageIds : SelectImageBegin(1, p, img)
    \/ SelectImageEnd(1)
    \/ \E p \in PlayerIds, img \in ImageIds, t \in Texts : SubmitGuessBegin(1, p, img, t)
    \/ SubmitGuessEnd(1)
    \/ ScoreRoundBegin(1)
    \/ ScoreRoundEnd(1)

SpecDegraded == InitDegraded /\ [][NextDegraded]_vars

\* ------------------------------------------------------------ scoring runs
RECURSIVE afterJoins(_, _)
\* The room after players 2..n joined, one tick of the clock apart.
afterJoins(room, n) ==
    IF n <= 1 THEN room
    ELSE joinRoom(afterJoins(room, n - 1), n, Min(n - 1, MaxClock))

RECURSIVE afterReady(_, _)
\* The room after players 1..n each set themselves ready.
afterReady(room, n) ==
    IF n = 0 THEN room ELSE setPlayerReady(afterReady(room, n - 1), n, TRUE)

\* A lobby made by createRoom and joinRoom, everyone ready.
JoinedLobby ==
    afterReady(afterJoins(createRoom(1, 0, NoSettings), NumPlayers), NumPlayers)

RECURSIVE afterSubmitsOf(_, _, _)
\* The room after players 1..n each submitted the prompt promptOf gives them.
afterSubmitsOf(room, n, promptOf) ==
    IF n = 0 THEN room
    ELSE submitPrompt(afterSubmitsOf(room, n - 1, promptOf), n, promptOf[n], 0)

\* The (image owner, guesser) pairs of a round in which every player guesses
\* every other player's image.
GuessPairs == { k \in PlayerIds \X PlayerIds : k[1] # k[2] }

RECURSIVE afterGuessesOf(_, _, _)
\* The room after the first m guesses of such a round, image by image in the
\* order of reveal, the guess texts given by textOf.
afterGuessesOf(room, m, textOf) ==
    IF m = 0 THEN room
    ELSE LET i == ((m - 1) \div NumPlayers) + 1
             g == ((m - 1) % NumPlayers) + 1
             prev == afterGuessesOf(room, m - 1, textOf)
         IN  IF g = i THEN prev
             ELSE submitGuess(prev, g, << i, 1 >>, textOf[<< i, g >>], 0)

\* A first round played to its last guess with the given prompts and guesses.
roundToScore(promptOf, textOf) ==
    afterGuessesOf(
      afterSelections(
        generateImagesForRoundResult(
          afterGeneration(
            afterSubmitsOf(startGame(JoinedLobby, 0), NumPlayers, promptOf),
            NumPlayers),
          {}),
        NumPlayers),
      NumPlayers * NumPlayers, textOf)

\* The last guess of a first round has been stored, whatever the prompts and
\* the guesses were, and its handler is about to call scoreRound.
InitScoring ==
    /\ \E promptOf \in [ PlayerIds -> Texts ], textOf \in [ GuessPairs -> Texts ] :
          store = roundToScore(promptOf, textOf)
    /\ cmd = [ s \in Slots |->
                 IF s = 1 THEN Handler("submitGuess", "scoreRound", NumPlayers, store, TRUE)
                          ELSE Idle ]
    /\ gen = NoGen
    /\ sent = EmptyBag
    /\ calls = EmptyBag
    /\ issued = 0
    /\ clock = 0
    /\ keys = LiveKeys
    /\ fallbackProviderInstance = NoProvider
    /\ redis = NoRedis

\* One command at a time: the round is scored, the reveal completed, the next
\* round opened, played and scored.
NextScoring ==
    \/ ScoreRoundBegin(1)
    \/ ScoreRoundEnd(1)
    \/ \E p \in PlayerIds : CompleteRevealBegin(1, p)
    \/ CompleteRevealEnd(1)
    \/ \E p \in PlayerIds : NextRoundBegin(1, p)
    \/ NextRoundEnd(1)
    \/ PlayRound(1)

SpecScoring == InitScoring /\ [][NextScoring]_vars

\* -------------------------------------------------------- last guess runs
\* submit_guess commands followed in these runs.
MaxGuessCmds == 2

\* A first round in reveal_guess on its last image, one guess missing.
InitLastGuess ==
    /\ LET promptOf == [ p \in PlayerIds |-> <<"a", " ", "b">> ]
           textOf == [ k \in GuessPairs |-> <<"c">> ]
       IN store = afterGuessesOf(
                    afterSelections(
                      generateImagesForRoundResult(
                        afterGeneration(
                          afterSubmitsOf(startGame(JoinedLobby, 0), NumPlayers, promptOf),
                          NumPlayers),
                        {}),
                      NumPlayers),
                    NumPlayers * NumPlayers - 2, textOf)
    /\ cmd = [ s \in Slots |-> Idle ]
    /\ gen = NoGen
    /\ sent = EmptyBag
    /\ calls = EmptyBag
    /\ issued = 0
    /\ clock = 0
    /\ keys = LiveKeys
    /\ fallbackProviderInstance = NoProvider
    /\ redis = NoRedis

\* submit_guess commands for the last image, their handlers overlapping.
NextLastGuess ==
    \/ /\ issued < MaxGuessCmds
       /\ \E s \in Slots, p \in PlayerIds, t \in Texts :
             SubmitGuessBegin(s, p, << NumPlayers, 1 >>, t)
    \/ \E s \in Slots : SubmitGuessEnd(s)
    \/ \E s \in Slots : ScoreRoundBegin(s)
    \/ \E s \in Slots : ScoreRoundEnd(s)

SpecLastGuess == InitLastGuess /\ [][NextLastGuess]_vars

\* -------------------------------------------------------- similarity runs
\* Prompts and guesses, among them texts that repeat a token.
ScoreTexts == { <<"a", " ", "a">>, <<"a", " ", "b">>, <<"a">> }

\* The last guess of a first round has been stored, prompts and guesses
\* drawn from ScoreTexts, and its handler is about to call scoreRound.
InitSimilarity ==
    /\ \E promptOf \in [ PlayerIds -> ScoreTexts ], textOf \in [ GuessPairs -> ScoreTexts ] :
          store = roundToScore(promptOf, textOf)
    /\ cmd = [ s \in Slots |->
                 IF s = 1 THEN Handler("submitGuess", "scoreRound", NumPlayers, store, TRUE)
                          ELSE Idle ]
    /\ gen = NoGen
    /\ sent = EmptyBag
    /\ calls = EmptyBag
    /\ issued = 0
    /\ clock = 0
    /\ keys = LiveKeys
    /\ fallbackProviderInstance = NoProvider
    /\ redis = NoRedis

NextSimilarity ==
    \/ ScoreRoundBegin(1)
    \/ ScoreRoundEnd(1)

SpecSimilarity == InitSimilarity /\ [][NextSimilarity]_vars

storedRound == getCurrentRound(store.game)

\* C1: every submitPrompt command that has completed (its prompt_submitted
\* was broadcast) has its player's prompt in the stored round, and when every
\* player's command has completed the round has left prompt_submit.
C1_SubmitsSerialized ==
    /\ \A p \in PlayerIds :
          BagIn(PromptSubmitted(p), sent) => p \in DOMAIN storedRound.prompts
    /\ (\A p \in PlayerIds : BagIn(PromptSubmitted(p), sent))
          => storedRound.status = "image_generate"

\* C9: no submitPrompt is accepted from a player whose prompt is already
\* stored, and a stored prompt keeps its text and submittedAt.
C9_SecondSubmitRejected ==
    [][ /\ \A s \in Slots :
              (cmd[s].op = "idle" /\ cmd'[s].op = "submitPrompt")
                 => cmd'[s].player \notin DOMAIN storedRound.prompts
        /\ \A p \in DOMAIN storedRound.prompts :
              /\ p \in DOMAIN getCurrentRound(store'.game).prompts
              /\ getCurrentRound(store'.game).prompts[p].prompt = storedRound.prompts[p].prompt
              /\ getCurrentRound(store'.game).prompts[p].submittedAt
                   = storedRound.prompts[p].submittedAt ]_vars

\* No orchestrator run and no handler is in flight or waiting to start.
Quiescent == gen.pc = "idle" /\ gen.pending = 0 /\ NoneInFlight

GenCall(p, outcome) ==
    [ by |-> "generateImagesForRound", player |-> p, outcome |-> outcome ]

ResubmitCall(p, outcome) ==
    [ by |-> "resubmitPrompt", player |-> p, outcome |-> outcome ]

\* The generator rejected exactly the prompt of b, accepted every other prompt
\* of the round, and accepted the one resubmission b made; it was asked
\* nothing else.
RejectedOnceThenAccepted(b) ==
    /\ CopiesIn(GenCall(b, "policy"), calls) = 1
    /\ \A q \in PlayerIds \ {b} : CopiesIn(GenCall(q, "ok"), calls) = 1
    /\ CopiesIn(ResubmitCall(b, "ok"), calls) = 1
    /\ BagCardinality(calls) = NumPlayers + 1

\* C2: once the rejected player's accepted resubmission and every other
\* generation have completed, the round is in image_select.
C2_ResubmitReachesSelect ==
    (Quiescent /\ \E b \in PlayerIds : RejectedOnceThenAccepted(b))
        => storedRound.status = "image_select"

\* C3: at most one phase_transition to image_select is broadcast for the
\* round, and the stored round, once in image_select, is not moved out of it
\* by generateImagesForRound or resubmitPrompt (so it enters it once).
C3_SelectOnce ==
    [][ /\ CopiesIn(PhaseTransition("image_select"), sent') <= 1
        /\ storedRound.status = "image_select"
             => getCurrentRound(store'.game).status = "image_select" ]_vars

\* C4: while a submission of the stored round is rejected, the round and the
\* game are in image_generate.
C4_RejectedKeepsGenerate ==
    \A p \in DOMAIN storedRound.prompts :
        storedRound.prompts[p].status = "rejected"
            => /\ storedRound.status = "image_generate"
               /\ store.game.status = "image_generate"

\* A resubmission was accepted by the generator and written while another
\* submission is still rejected.
C4_Witness ==
    /\ Quiescent
    /\ \E p, q \in PlayerIds :
         /\ p # q
         /\ storedRound.prompts[p].status = "rejected"
         /\ storedRound.prompts[q].status = "ready"
         /\ BagIn(ResubmitCall(q, "ok"), calls)

\* ------------------------------------------------------------ reveal claims
\* The image under reveal: the selection at currentRevealIndex, in the order
\* the selections were stored.
currentImage(round) == round.selections[round.currentRevealIndex + 1].imageId

\* The (imageId, playerId) pairs a round holds a guess for.
guessKeys(round) ==
    { << img, p >> : img \in DOMAIN round.guesses, p \in PlayerIds } \cap
    { k \in ImageIds \X PlayerIds : k[2] \in DOMAIN round.guesses[k[1]] }

\* Whether p submitted the image: some selection of p names it.
isSubmitter(round, img, p) ==
    \E i \in DOMAIN round.selections :
        round.selections[i].imageId = img /\ round.selections[i].playerId = p

\* Every player but the image's submitter has a stored guess for the image.
allNonSubmittersGuessed(room, img) ==
    \A p \in playerIdsOf(room) :
        isSubmitter(getCurrentRound(room.game), img, p)
            \/ << img, p >> \in guessKeys(getCurrentRound(room.game))

\* C10: every stored selection names one of the images generated for the
\* selecting player's own prompt; selectImage stores no other imageId.
C10_OwnImageSelected ==
    \A i \in DOMAIN storedRound.selections :
        storedRound.selections[i].imageId \in
            Range(storedRound.prompts[storedRound.selections[i].playerId].images)

\* C5: no stored guess is by the submitter of the guessed image.  Stated for
\* rounds whose selections are all of own images, so that every image has one
\* submitter.
C5_NoSelfGuess ==
    C10_OwnImageSelected =>
        \A k \in guessKeys(storedRound) :
            ~ isSubmitter(storedRound, k[1], storedRound.guesses[k[1]][k[2]].playerId)

\* C6: during reveal_guess a guess is stored, or a stored guess changed, only
\* for the image at currentRevealIndex; any other submitGuess leaves the
\* guesses of the stored round as they are.
C6_OnlyCurrentImage ==
    [][ storedRound.status = "reveal_guess" =>
          \A k \in guessKeys(getCurrentRound(store'.game)) :
              ( k \notin guessKeys(storedRound)
                \/ getCurrentRound(store'.game).guesses[k[1]][k[2]]
                     # storedRound.guesses[k[1]][k[2]] )
              => k[1] = currentImage(storedRound) ]_vars

\* C7: during reveal_guess currentRevealIndex only moves by one, and it moves
\* or the round goes to scoring only in a step after which every non-submitter
\* has a guess stored for the image that was under reveal; a round that enters
\* scoring has such guesses for every selected image.
C7_AdvanceOnLastGuess ==
    [][ ( /\ storedRound.status = "reveal_guess"
          /\ \/ getCurrentRound(store'.game).currentRevealIndex
                  # storedRound.currentRevealIndex
             \/ getCurrentRound(store'.game).status # "reveal_guess" )
        => /\ getCurrentRound(store'.game).currentRevealIndex \in
                { storedRound.currentRevealIndex, storedRound.currentRevealIndex + 1 }
           /\ allNonSubmittersGuessed(store', currentImage(storedRound))
           /\ getCurrentRound(store'.game).status = "scoring" =>
                \A i \in DOMAIN storedRound.selections :
                    allNonSubmittersGuessed(store', storedRound.selections[i].imageId)
      ]_vars

\* C8: a stored guess keeps its text and its submittedAt whatever the same
\* player sends for the same image afterwards, and a step of reveal_guess that
\* stores no new guess changes neither currentRevealIndex nor the status.
C8_DuplicateGuessRejected ==
    [][ /\ \A k \in guessKeys(storedRound) :
              /\ k \in guessKeys(getCurrentRound(store'.game))
              /\ getCurrentRound(store'.game).guesses[k[1]][k[2]].guessText
                   = storedRound.guesses[k[1]][k[2]].guessText
              /\ getCurrentRound(store'.game).guesses[k[1]][k[2]].submittedAt
                   = storedRound.guesses[k[1]][k[2]].submittedAt
        /\ ( storedRound.status = "reveal_guess"
             /\ guessKeys(getCurrentRound(store'.game)) = guessKeys(storedRound) )
           => /\ getCurrentRound(store'.game).currentRevealIndex
                   = storedRound.currentRevealIndex
              /\ getCurrentRound(store'.game).status = storedRound.status
      ]_vars

\* ---------------------------------------------------------- resubmit claims
\* C11: a resubmit_prompt command starts a resubmission only when the stored
\* round it reads is in image_generate and the sender's submission is
\* rejected; a command that is refused leaves the stored room as it was.
C11_ResubmitOnlyRejected ==
    [][ issued' # issued =>
          IF cmd' # cmd
            THEN \A s \in Slots :
                   cmd'[s] # cmd[s] =>
                       /\ cmd'[s].op = "resubmitPrompt"
                       /\ storedRound.status = "image_generate"
                       /\ cmd'[s].player \in DOMAIN storedRound.prompts
                       /\ storedRound.prompts[cmd'[s].player].status = "rejected"
            ELSE store' = store ]_vars

\* A resubmission was refused for its precondition, in image_generate, from a
\* player whose submission is stored: the generator was never asked.
C11_Witness ==
    /\ storedRound.status = "image_generate"
    /\ \E p \in PlayerIds :
         /\ BagIn(ErrorTo(p, "RESUBMIT_PROMPT_FAILED"), sent)
         /\ \A o \in Outcomes : ~ BagIn(ResubmitCall(p, o), calls)
         /\ storedRound.prompts[p].status \in { "pending", "generating", "ready", "failed" }

\* ------------------------------------------------------------ lobby claims
\* C12: a stored room never holds more players than maxPlayers; a join is
\* begun only on a room read in lobby with room for one more, and a join
\* that is refused leaves the stored room as it was.
C12_JoinWithinCapacity ==
    [][ /\ store' # NoRoom => Len(store'.players) <= store'.maxPlayers
        /\ \A s \in Slots :
             (cmd[s].op = "idle" /\ cmd'[s].op = "joinRoom") =>
                 /\ store # NoRoom
                 /\ store.status = "lobby"
                 /\ Len(store.players) < store.maxPlayers
                 /\ Len(cmd'[s].room.players) = Len(store.players) + 1
        /\ (\E m \in { "Game already in progress", "Room is full" } :
               CopiesIn(HttpError(m), sent') > CopiesIn(HttpError(m), sent))
           => store' = store ]_vars

\* A join was refused by a full room, which holds maxPlayers players.
C12_Witness ==
    /\ BagIn(HttpError("Room is full"), sent)
    /\ store # NoRoom
    /\ Len(store.players) = store.maxPlayers

\* C13: a stored room with players has exactly one player with isHost, and
\* hostId is that player's id.
C13_OneHost ==
    (store # NoRoom /\ store.players # << >>) =>
        /\ Cardinality({ i \in DOMAIN store.players : store.players[i].isHost }) = 1
        /\ \E i \in DOMAIN store.players :
              store.players[i].isHost /\ store.players[i].id = store.hostId

\* The first host has been removed and another player is stored as host.
C13_Witness ==
    /\ store # NoRoom
    /\ store.players # << >>
    /\ store.hostId # 1
    /\ 1 \notin playerIdsOf(store)

\* C14: removePlayer of the host of a room that keeps a player makes the
\* remaining player with the smallest joinedAt the host and returns its id;
\* removePlayer of another player returns no newHostId and changes neither
\* hostId nor any isHost; the copy it made is what it writes.
C14_HostMigration ==
    [][ \A s \in Slots :
          /\ (cmd[s].op = "idle" /\ cmd'[s].op = "removePlayer"
                /\ cmd'[s].pc = "updateRoom") =>
               IF playerOf(store, cmd'[s].player).isHost
                 THEN /\ cmd'[s].flag
                      /\ cmd'[s].room.hostId \in playerIdsOf(cmd'[s].room)
                      /\ cmd'[s].room.hostId # cmd'[s].player
                      /\ playerOf(cmd'[s].room, cmd'[s].room.hostId).isHost
                      /\ \A i \in DOMAIN cmd'[s].room.players :
                            playerOf(store, cmd'[s].room.hostId).joinedAt
                              <= cmd'[s].room.players[i].joinedAt
                 ELSE /\ ~ cmd'[s].flag
                      /\ cmd'[s].room.hostId = store.hostId
                      /\ \A i \in DOMAIN cmd'[s].room.players :
                            cmd'[s].room.players[i].isHost
                              = playerOf(store, cmd'[s].room.players[i].id).isHost
          /\ (cmd[s].op = "removePlayer" /\ cmd[s].pc = "updateRoom"
                /\ cmd'[s].op = "idle" /\ roomExists) => store' = cmd[s].room ]_vars

\* A host is being removed from a room whose remaining players joined at
\* different times.
C14_Witness ==
    \E s \in Slots :
        /\ cmd[s].op = "removePlayer"
        /\ cmd[s].flag
        /\ \E i, j \in DOMAIN cmd[s].room.players :
              cmd[s].room.players[i].joinedAt # cmd[s].room.players[j].joinedAt

C16_StartOnlyWhenReady ==
    [][ \A s \in Slots :
          (cmd[s].op = "startGame" /\ cmd[s].pc = "getRoomById"
             /\ cmd'[s].pc = "updateRoom")
            => handleStartGameError(store, cmd[s].player) = "" ]_vars

\* C17: the stored room is in lobby exactly when it has no game.
C17_LobbyIffNoGame ==
    store # NoRoom => (store.status = "lobby" <=> store.game = NoGame)

\* The game has been started.
C17_Witness == store # NoRoom /\ store.status = "playing" /\ store.game # NoGame

C19_RoundsWithinCount ==
    [][ (roomExists' /\ store'.game # NoGame) =>
          /\ Len(store'.game.rounds) = store'.game.currentRound
          /\ store'.game.status = "game_end"
                => store'.game.currentRound = store'.settings.roundCount
          /\ (store.game # NoGame /\ Len(store'.game.rounds) > Len(store.game.rounds))
                => Len(store'.game.rounds) <= store'.settings.roundCount ]_vars

\* C20: a completeReveal that reads a game no longer in reveal_results returns
\* the room it read and writes nothing: its handler ends with the stored room
\* as it was, finishedAt included, and without an error; and applying
\* completeReveal to its own result at any later time changes nothing.
C20_CompleteRevealIdempotent ==
    [][ \A s \in Slots :
          /\ (cmd[s].op = "idle" /\ cmd'[s].op = "completeReveal"
                /\ store.game.status # "reveal_results")
               => /\ cmd'[s].pc = "emit"
                  /\ cmd'[s].room = store
          /\ (cmd[s].op = "idle" /\ cmd'[s].op = "completeReveal"
                /\ store.game.status = "reveal_results")
               => /\ cmd'[s].pc = "updateRoom"
                  /\ cmd'[s].room.game.status \in { "round_end", "game_end" }
                  /\ \A t \in 0..MaxClock :
                        completeReveal(cmd'[s].room, t) = cmd'[s].room
          /\ (cmd[s].op = "completeReveal" /\ cmd[s].pc = "emit"
                /\ cmd'[s].op = "idle")
               => /\ store' = store
                  /\ CopiesIn(ErrorTo(cmd[s].player, "COMPLETE_REVEAL_FAILED"), sent')
                       = CopiesIn(ErrorTo(cmd[s].player, "COMPLETE_REVEAL_FAILED"), sent) ]_vars

\* A completeReveal has closed the round at an earlier time, and a second one
\* has read the closed round and is about to return.
C20_Witness ==
    \E s \in Slots :
        /\ cmd[s].op = "completeReveal"
        /\ cmd[s].pc = "emit"
        /\ store.game.status \in { "round_end", "game_end" }
        /\ storedRound.status = "completed"
        /\ storedRound.finishedAt < clock

\* C21: a complete_reveal that ends when another complete_reveal has already
\* closed the reveal of the same round (the stored game is in round_end or
\* game_end) broadcasts no phase_transition, whether it read the closed round
\* or read reveal_results before the other command's write.
C21_OneTransitionPerReveal ==
    [][ \A s \in Slots :
          ( /\ cmd[s].op = "completeReveal"
            /\ cmd'[s].op = "idle"
            /\ store.game.status \in { "round_end", "game_end" }
            /\ store.game.currentRound = cmd[s].room.game.currentRound
            /\ cmd[s].room.game.status \in { "round_end", "game_end" } )
            => CopiesIn(PhaseTransition(cmd[s].room.game.status), sent')
                 = CopiesIn(PhaseTransition(cmd[s].room.game.status), sent) ]_vars

\* C22: a startNextRound goes on to its write only when the room it read has
\* the caller as host, the game in round_end and currentRound below
\* settings.roundCount; the room it writes is the room read with currentRound
\* one higher, one fresh round in prompt_submit appended and game.status
\* prompt_submit. In every other case the command ends with an error and the
\* stored room is unchanged.
C22_NextRoundOnlyFromRoundEnd ==
    [][ /\ \A s \in Slots :
             /\ (cmd[s].op = "idle" /\ cmd'[s].op = "startNextRound")
                  => /\ playerOf(store, cmd'[s].player).isHost
                     /\ store.game.status = "round_end"
                     /\ store.game.currentRound < store.settings.roundCount
                     /\ cmd'[s].room.game.currentRound = store.game.currentRound + 1
                     /\ Len(cmd'[s].room.game.rounds) = Len(store.game.rounds) + 1
                     /\ SubSeq(cmd'[s].room.game.rounds, 1, Len(store.game.rounds))
                          = store.game.rounds
                     /\ getCurrentRound(cmd'[s].room.game)
                          = newRound(store.game.currentRound + 1, clock)
                     /\ cmd'[s].room.game.status = "prompt_submit"
                     /\ [ cmd'[s].room EXCEPT !.game = store.game ] = store
                     /\ store' = store
             /\ (cmd[s].op = "startNextRound" /\ cmd'[s].op = "idle" /\ roomExists)
                  => store' = cmd[s].room
        /\ \A p \in PlayerIds :
             CopiesIn(ErrorTo(p, "NEXT_ROUND_FAILED"), sent')
                 > CopiesIn(ErrorTo(p, "NEXT_ROUND_FAILED"), sent)
               => /\ store' = store
                  /\ cmd' = cmd
                  /\ ~ ( /\ playerOf(store, p).isHost
                         /\ store.game.status = "round_end"
                         /\ store.game.currentRound < store.settings.roundCount ) ]_vars

\* The host's next_round has opened round 2 after a completeReveal closed
\* round 1.
C22_Witness ==
    /\ store.game # NoGame
    /\ store.game.currentRound = 2
    /\ store.game.status = "prompt_submit"
    /\ store.game.rounds[1].status = "completed"
    /\ BagIn(PhaseTransition("prompt_submit"), sent)

\* C23: a navigateResult goes on to its write only when the game it read is
\* in reveal_results, and the index it writes is within 0 .. selections.size - 1:
\* previous at 0 stays at 0, next at the last index stays there, and
\* otherwise the index moves by exactly one; nothing else of the room
\* changes. A navigateResult in another phase ends with an error and the
\* stored room unchanged.
C23_NavigateWithinResults ==
    [][ /\ \A s \in Slots :
             (cmd[s].op = "idle" /\ cmd'[s].op = "navigateResult")
               => LET old == storedRound.currentResultIndex
                      new == getCurrentRound(cmd'[s].room.game).currentResultIndex
                      last == Len(storedRound.selections) - 1
                  IN  /\ store.game.status = "reveal_results"
                      /\ old \in 0..last
                      /\ new \in 0..last
                      /\ new = IF cmd'[s].flag
                                 THEN IF old = last THEN last ELSE old + 1
                                 ELSE IF old = 0 THEN 0 ELSE old - 1
                      /\ withRound(cmd'[s].room,
                             [ getCurrentRound(cmd'[s].room.game) EXCEPT
                                 !.currentResultIndex = old ]) = store
                      /\ store' = store
        /\ \A p \in PlayerIds :
             CopiesIn(ErrorTo(p, "NAVIGATE_RESULT_FAILED"), sent')
                 > CopiesIn(ErrorTo(p, "NAVIGATE_RESULT_FAILED"), sent)
               => /\ store' = store
                  /\ cmd' = cmd
                  /\ store.game.status # "reveal_results"
        /\ (roomExists' /\ store'.game # NoGame /\ store'.game.status = "reveal_results")
             => getCurrentRound(store'.game).currentResultIndex
                  \in 0 .. Len(getCurrentRound(store'.game).selections) - 1 ]_vars

\* A next at the last result of the reveal is about to be written, the index
\* unchanged.
C23_Witness ==
    \E s \in Slots :
        /\ cmd[s].op = "navigateResult"
        /\ cmd[s].flag
        /\ store.game.status = "reveal_results"
        /\ storedRound.currentResultIndex = Len(storedRound.selections) - 1
        /\ storedRound.currentResultIndex > 0
        /\ getCurrentRound(cmd[s].room.game).currentResultIndex
             = storedRound.currentResultIndex

\* ----------------------------------------------------------- scoring claims
RECURSIVE SumSeq(_)
SumSeq(seq) == IF seq = << >> THEN 0 ELSE seq[1] + SumSeq(Tail(seq))

\* The leaderboard entries of a player.
entriesOf(game, p) ==
    { i \in DOMAIN game.leaderboard.scores : game.leaderboard.scores[i].playerId = p }

\* The rounds of a game scoreRound has scored.
scoredRounds(game) ==
    { i \in DOMAIN game.rounds :
        game.rounds[i].status \in { "reveal_results", "completed" } }

\* C24: in the stored game every player of the room has one leaderboard
\* entry, with one roundScores element per scored round and totalScore the
\* sum of roundScores.
C24_OneRoundScorePerPlayer ==
    (roomExists /\ store.game # NoGame) =>
        \A p \in playerIdsOf(store) :
            /\ Cardinality(entriesOf(store.game, p)) = 1
            /\ \A i \in entriesOf(store.game, p) :
                  /\ Len(store.game.leaderboard.scores[i].roundScores)
                       = Cardinality(scoredRounds(store.game))
                  /\ store.game.leaderboard.scores[i].totalScore
                       = SumSeq(store.game.leaderboard.scores[i].roundScores)

\* The leaderboard total of a player.
totalOf(game, p) ==
    game.leaderboard.scores[CHOOSE i \in entriesOf(game, p) : TRUE].totalScore

\* C25: the rankings of the stored game list every player of the room once,
\* a player with a higher totalScore before one with a lower, and of two
\* players with equal totals the one who joined earlier first.
C25_RankingsSorted ==
    (roomExists /\ store.game # NoGame) =>
        LET rankings == store.game.leaderboard.rankings
        IN  /\ Len(rankings) = Len(store.players)
            /\ Range(rankings) = playerIdsOf(store)
            /\ \A i, j \in DOMAIN rankings :
                  i < j =>
                    \/ totalOf(store.game, rankings[i]) > totalOf(store.game, rankings[j])
                    \/ /\ totalOf(store.game, rankings[i]) = totalOf(store.game, rankings[j])
                       /\ playerOf(store, rankings[i]).joinedAt
                            <= playerOf(store, rankings[j]).joinedAt

\* scoreRound has ranked two players of equal, non-zero totals who joined at
\* different times.
C25_Witness ==
    /\ store.game # NoGame
    /\ storedRound.status = "reveal_results"
    /\ \E p, q \in playerIdsOf(store) :
          /\ playerOf(store, p).joinedAt < playerOf(store, q).joinedAt
          /\ totalOf(store.game, p) = totalOf(store.game, q)
          /\ totalOf(store.game, p) > 0

\* The score stored on the guess of p for img, 0 when there is none.
storedScore(round, img, p) ==
    IF img \in DOMAIN round.guesses /\ p \in DOMAIN round.guesses[img]
         /\ round.guesses[img][p].score # << >>
      THEN round.guesses[img][p].score[1] ELSE 0

\* Whether the guesses stored for img have a mean score below 40.
meanBelow40(round, img) ==
    SumOver([ p \in DOMAIN round.guesses[img] |-> storedScore(round, img, p) ],
            DOMAIN round.guesses[img])
      < 40 * Cardinality(DOMAIN round.guesses[img])

\* Whether the round records a bonus of 50 for img.
bonusRecorded(round, img) ==
    img \in DOMAIN round.bonusPoints /\ round.bonusPoints[img] = 50

\* The images of a round that have a guess: the ids with guesses that a
\* selection names.
guessedImages(round) ==
    { img \in DOMAIN round.guesses : findSelection(round.selections, img) # << >> }

\* Whether p is the creator of img: the first selection naming img is p's.
isCreator(round, img, p) == findSelection(round.selections, img)[1].playerId = p

C27_EveryGuessScored ==
    (roomExists /\ store.game # NoGame) =>
        \A k \in guessKeys(storedRound) :
            LET score == storedRound.guesses[k[1]][k[2]].score
            IN  IF storedRound.status \in { "reveal_results", "completed" }
                  THEN score # << >> /\ score[1] \in 0..100
                  ELSE score = << >>

\* The players of the round whose generation produced images.
playersWithImages(round) ==
    { p \in DOMAIN round.prompts : round.prompts[p].images # << >> }

\* The players with a stored selection.
selectors(round) == { round.selections[i].playerId : i \in DOMAIN round.selections }

\* C28: a round whose generation ended with failed and no rejected
\* submissions is not held in image_select by the players without images:
\* once every player who has images (there being some) has a stored
\* selection, the round has left image_select.
C28_FailedDoesNotBlock ==
    ( /\ roomExists
      /\ store.game # NoGame
      /\ storedRound.status = "image_select"
      /\ playersWithImages(storedRound) # {} )
      => \E p \in playersWithImages(storedRound) : p \notin selectors(storedRound)


\* ------------------------------------------------------------ image service
\* What a provider's generateImages answers: images, or an error thrown.  Two
\* errors are content-policy verdicts, by their code or by their type.
Verdicts ==
    { "images", "code=content_policy_violation",
      "type=image_generation_user_error", "error" }

isContentViolation(verdict) ==
    verdict \in { "code=content_policy_violation", "type=image_generation_user_error" }

\* getConfig: ENABLE_FALLBACK and FALLBACK_PROVIDER ("" when unset).
Configs ==
    [ enableFallback : BOOLEAN, fallbackProvider : { "", "openai", "huggingface" } ]

\* initializeImageService: the fallback instance it leaves.
initializeImageService(config) ==
    IF config.enableFallback /\ config.fallbackProvider # ""
      THEN config.fallbackProvider
      ELSE NoProvider

ProviderCall(provider, p, verdict) ==
    [ by |-> provider, player |-> p, outcome |-> verdict ]

\* generateImages returns the images of a provider, or throws.
ImagesReturned(p, provider) == Event("return", 0, p, provider)
GenerateImagesThrows(p, error) == Event("throw", 0, p, error)

\* generateImages with a fallback tried after any error of the main provider.
triesFallback_AnyError(verdict, fallback) ==
    verdict # "images" /\ fallback # NoProvider

\* The catch of the main provider's error goes on to the fallback.
triesFallback(verdict, fallback) ==
    /\ verdict # "images"
    /\ ~ isContentViolation(verdict)
    /\ fallback # NoProvider

\* Each submission is generated once in these runs.
generateImagesCalled(p) ==
    \/ \E s \in Slots : cmd[s].op = "generateImages" /\ cmd[s].player = p
    \/ \E v \in Verdicts : BagIn(ProviderCall("mainProvider", p, v), calls)

\* generateImages up to its await of the main provider.
GenerateImagesBegin(s, p) ==
    /\ FreeSlot(s)
    /\ ~ generateImagesCalled(p)
    /\ cmd' = [ cmd EXCEPT ![s] =
                  Handler("generateImages", "mainProvider", p, NoGame, FALSE) ]
    /\ UNCHANGED << store, gen, sent, calls, issued, clock, keys, fallbackProviderInstance, redis >>

\* The main provider answers: return, throw, or go on to the fallback.
MainProviderDone(s, verdict) ==
    /\ cmd[s].op = "generateImages"
    /\ cmd[s].pc = "mainProvider"
    /\ calls' = emit(calls, ProviderCall("mainProvider", cmd[s].player, verdict))
    /\ IF triesFallback(verdict, fallbackProviderInstance)
         THEN /\ cmd' = [ cmd EXCEPT ![s].pc = "fallbackProviderInstance" ]
              /\ UNCHANGED sent
         ELSE /\ cmd' = [ cmd EXCEPT ![s] = Idle ]
              /\ sent' =
                   IF verdict = "images"
                     THEN emit(sent, ImagesReturned(cmd[s].player, "mainProvider"))
                   ELSE IF isContentViolation(verdict)
                     THEN emit(sent, GenerateImagesThrows(cmd[s].player,
                                                          "ContentPolicyViolationError"))
                   ELSE emit(sent, GenerateImagesThrows(cmd[s].player, verdict))
    /\ UNCHANGED << store, gen, issued, clock, keys, fallbackProviderInstance, redis >>

\* The fallback provider answers: return or throw.
FallbackProviderDone(s, verdict) ==
    /\ cmd[s].op = "generateImages"
    /\ cmd[s].pc = "fallbackProviderInstance"
    /\ calls' = emit(calls, ProviderCall("fallbackProviderInstance", cmd[s].player, verdict))
    /\ cmd' = [ cmd EXCEPT ![s] = Idle ]
    /\ sent' =
         IF verdict = "images"
           THEN emit(sent, ImagesReturned(cmd[s].player, "fallbackProviderInstance"))
         ELSE IF isContentViolation(verdict)
           THEN emit(sent, GenerateImagesThrows(cmd[s].player,
                                                "ContentPolicyViolationError"))
         ELSE emit(sent, GenerateImagesThrows(cmd[s].player,
                                              "Both main and fallback providers failed"))
    /\ UNCHANGED << store, gen, issued, clock, keys, fallbackProviderInstance, redis >>

\* The round is in image_generate and the service is initialized from any
\* configuration; generateImages is called for each submission.
InitFallback ==
    /\ store = afterSubmits(startGame(ReadyLobby, 0), NumPlayers)
    /\ cmd = [ s \in Slots |-> Idle ]
    /\ gen = NoGen
    /\ sent = EmptyBag
    /\ calls = EmptyBag
    /\ issued = 0
    /\ clock = 0
    /\ keys = LiveKeys
    /\ \E config \in Configs :
          fallbackProviderInstance = initializeImageService(config)
    /\ redis = NoRedis

NextFallback ==
    \/ \E s \in Slots, p \in PlayerIds : GenerateImagesBegin(s, p)
    \/ \E s \in Slots, v \in Verdicts : MainProviderDone(s, v)
    \/ \E s \in Slots, v \in Verdicts : FallbackProviderDone(s, v)

SpecFallback == InitFallback /\ [][NextFallback]_vars

\* -------------------------------------------------------------- createRoom
\* One test of the room code by createRoom: which call, after how many
\* regenerations, and the code isRoomCodeTaken reported free (0: it reported
\* the code taken).
CodeCheck(id, attempts, code, taken) ==
    [ by |-> "isRoomCodeTaken", player |-> id,
      outcome |-> [ attempts |-> attempts, free |-> IF taken THEN 0 ELSE code ] ]

CodeExhausted(id) == Event("throw", 0, id, "Failed to generate unique room code")
RoomCreated(id) == Event("return", 0, id, "createRoom")

\* createRoom giving up one regeneration early.
codeExhausted_Early(attempts) == attempts >= 10

\* if (attempts > 10) throw
codeExhausted(attempts) == attempts > 10

\* createRoom draws its first code and awaits isRoomCodeTaken.  The id stands
\* for the uuid of the room the call will save.
CreateRoomBegin(s, code) ==
    /\ FreeSlot(s)
    /\ issued < MaxCreates
    /\ issued' = issued + 1
    /\ cmd' = [ cmd EXCEPT ![s] =
                  Handler("createRoom", "isRoomCodeTaken", issued + 1,
                          [ code |-> code, attempts |-> 0 ], FALSE) ]
    /\ UNCHANGED << store, gen, sent, calls, clock, keys, fallbackProviderInstance, redis >>

\* isRoomCodeTaken answers: the loop body draws the next code and counts, or
\* the loop ends with the code it tested.
CreateRoomCheck(s, next) ==
    /\ cmd[s].op = "createRoom"
    /\ cmd[s].pc = "isRoomCodeTaken"
    /\ LET code == cmd[s].room.code
           attempts == cmd[s].room.attempts
           taken == redis.code[code] # 0
       IN  /\ calls' = emit(calls, CodeCheck(cmd[s].player, attempts, code, taken))
           /\ IF ~ taken
                THEN /\ cmd' = [ cmd EXCEPT ![s].pc = "saveRoom" ]
                     /\ UNCHANGED sent
                ELSE IF codeExhausted(attempts + 1)
                  THEN /\ cmd' = [ cmd EXCEPT ![s] = Idle ]
                       /\ sent' = emit(sent, CodeExhausted(cmd[s].player))
                  ELSE /\ cmd' = [ cmd EXCEPT ![s].room =
                                     [ code |-> next, attempts |-> attempts + 1 ] ]
                       /\ UNCHANGED sent
    /\ UNCHANGED << store, gen, issued, clock, keys, fallbackProviderInstance, redis >>

\* The repository's createRoom: redis.set(roomKey), redis.set(codeKey),
\* redis.sAdd, each awaited.
CreateRoomSaveRoom(s) ==
    /\ cmd[s].op = "createRoom"
    /\ cmd[s].pc = "saveRoom"
    /\ redis' = [ redis EXCEPT !.room[cmd[s].player] = cmd[s].room.code ]
    /\ cmd' = [ cmd EXCEPT ![s].pc = "saveCode" ]
    /\ UNCHANGED << store, gen, sent, calls, issued, clock, keys, fallbackProviderInstance >>

CreateRoomSaveCode(s) ==
    /\ cmd[s].op = "createRoom"
    /\ cmd[s].pc = "saveCode"
    /\ redis' = [ redis EXCEPT !.code[cmd[s].room.code] = cmd[s].player ]
    /\ cmd' = [ cmd EXCEPT ![s].pc = "sAdd" ]
    /\ UNCHANGED << store, gen, sent, calls, issued, clock, keys, fallbackProviderInstance >>

CreateRoomEnd(s) ==
    /\ cmd[s].op = "createRoom"
    /\ cmd[s].pc = "sAdd"
    /\ redis' = [ redis EXCEPT !.active = @ \cup { cmd[s].player } ]
    /\ sent' = emit(sent, RoomCreated(cmd[s].player))
    /\ cmd' = [ cmd EXCEPT ![s] = Idle ]
    /\ UNCHANGED << store, gen, calls, issued, clock, keys, fallbackProviderInstance >>

\* No room yet.
InitCreate ==
    /\ store = NoRoom
    /\ cmd = [ s \in Slots |-> Idle ]
    /\ gen = NoGen
    /\ sent = EmptyBag
    /\ calls = EmptyBag
    /\ issued = 0
    /\ clock = 0
    /\ keys = NoKeys
    /\ fallbackProviderInstance = NoProvider
    /\ redis = NoRedis

NextCreate ==
    \/ \E s \in Slots, c \in Codes : CreateRoomBegin(s, c)
    \/ \E s \in Slots, c \in Codes : CreateRoomCheck(s, c)
    \/ \E s \in Slots : CreateRoomSaveRoom(s)
    \/ \E s \in Slots : CreateRoomSaveCode(s)
    \/ \E s \in Slots : CreateRoomEnd(s)

\* createRoom calls overlapping.
SpecCreate == InitCreate /\ [][NextCreate]_vars

\* createRoom calls one after the other.
NextCreateSerial ==
    \/ \E c \in Codes : CreateRoomBegin(1, c)
    \/ \E c \in Codes : CreateRoomCheck(1, c)
    \/ CreateRoomSaveRoom(1)
    \/ CreateRoomSaveCode(1)
    \/ CreateRoomEnd(1)

SpecCreateSerial == InitCreate /\ [][NextCreateSerial]_vars

\* ------------------------------------------------------ notification claims
\* A prompt_rejected reaches a session of player q in this step.
receivesPromptRejected(q) ==
    \E p \in PlayerIds :
        CopiesIn(Event("prompt_rejected", q, p, ""), sent')
          > CopiesIn(Event("prompt_rejected", q, p, ""), sent)

joinedAs(playerSockets, q) ==
    \E i \in DOMAIN playerSockets : playerSockets[i].playerId = q

\* C29: when the generation of a round ends with rejected prompts, a
\* prompt_rejected reaches a session of exactly the rejected submitters that
\* have a session joined to the room; a resubmission that is rejected sends
\* prompt_rejected to the resubmitting connection and to no other.
C29_RejectedSubmittersNotified ==
    [][ /\ (gen.pc = "running" /\ gen'.pc = "idle" /\ gen.rejectedPlayerIds # {})
            => \A q \in PlayerIds :
                 receivesPromptRejected(q)
                   <=> (q \in gen.rejectedPlayerIds /\ joinedAs(gen'.playerSockets, q))
        /\ \A s \in Slots :
              (cmd[s].op = "resubmitPrompt" /\ cmd'[s].op = "idle")
                => \A q \in PlayerIds :
                     receivesPromptRejected(q) => q = cmd[s].player ]_vars

\* ------------------------------------------------------ image service claims
mainCalls(p, v) == CopiesIn(ProviderCall("mainProvider", p, v), calls)
fallbackCalls(p, v) == CopiesIn(ProviderCall("fallbackProviderInstance", p, v), calls)
throwsPolicy(p) == BagIn(GenerateImagesThrows(p, "ContentPolicyViolationError"), sent)

\* C30: generateImages calls the fallback provider at most once, and only
\* when a fallback is configured and the primary failed with a non-policy
\* error; a content-policy verdict of the primary is thrown as
\* ContentPolicyViolationError without a call of the fallback, one of the
\* fallback is thrown as ContentPolicyViolationError, and the images of the
\* provider that succeeds are returned.
C30_FallbackOnlyAfterFailure ==
    \A p \in PlayerIds :
        /\ \A v \in Verdicts : fallbackCalls(p, v) <= 1
        /\ \A v, w \in Verdicts :
              (fallbackCalls(p, v) > 0 /\ fallbackCalls(p, w) > 0) => v = w
        /\ (\E v \in Verdicts : fallbackCalls(p, v) > 0)
              => /\ fallbackProviderInstance # NoProvider
                 /\ \E v \in Verdicts :
                       /\ mainCalls(p, v) > 0
                       /\ v # "images"
                       /\ ~ isContentViolation(v)
        /\ \A v \in Verdicts :
              (isContentViolation(v) /\ mainCalls(p, v) > 0)
                => /\ throwsPolicy(p)
                   /\ \A w \in Verdicts : fallbackCalls(p, w) = 0
        /\ \A v \in Verdicts :
              (isContentViolation(v) /\ fallbackCalls(p, v) > 0) => throwsPolicy(p)
        /\ mainCalls(p, "images") > 0
              => /\ CopiesIn(ImagesReturned(p, "mainProvider"), sent) = 1
                 /\ ~ \E e \in BagToSet(sent) : e.type = "throw" /\ e.playerId = p
        /\ fallbackCalls(p, "images") > 0
              => /\ CopiesIn(ImagesReturned(p, "fallbackProviderInstance"), sent) = 1
                 /\ ~ \E e \in BagToSet(sent) : e.type = "throw" /\ e.playerId = p

\* One call returned the fallback's images after a failure of the primary,
\* another threw the primary's content-policy verdict.
C30_Witness ==
    \E p, q \in PlayerIds :
        /\ mainCalls(p, "error") > 0
        /\ fallbackCalls(p, "images") > 0
        /\ BagIn(ImagesReturned(p, "fallbackProviderInstance"), sent)
        /\ mainCalls(q, "code=content_policy_violation") > 0
        /\ throwsPolicy(q)

\* --------------------------------------------------------- createRoom claims
liveRooms(code) == { id \in RoomIds : redis.room[id] = code }

\* C31: after any interleaving of createRoom calls, every code index key
\* points to the only live room that has that code.
C31_CodeIndexesOneRoom ==
    NoneInFlight
      => \A c \in Codes : redis.code[c] # 0 => liveRooms(c) = { redis.code[c] }

codeChecks(id, attempts, code, taken) ==
    CopiesIn(CodeCheck(id, attempts, code, taken), calls)

\* The call tested a code after this many regenerations and found it taken.
collided(id, attempts) == \E c \in Codes : codeChecks(id, attempts, c, TRUE) > 0

\* The call tested a code after this many regenerations.
tested(id, attempts) ==
    \E c \in Codes, t \in BOOLEAN : codeChecks(id, attempts, c, t) > 0

\* C35: createRoom tests the initial code and at most 10 regenerated ones; it
\* saves the room under the first code reported free, and it fails with the
\* code-exhaustion error, saving no room, exactly when all 11 are taken.
C35_TenRetries ==
    \A id \in RoomIds :
        /\ \A k \in 11..12 : ~ tested(id, k)
        /\ \A k \in 0..10, c \in Codes :
              codeChecks(id, k, c, FALSE) > 0
                => /\ \A j \in 0..10 : j < k => collided(id, j)
                   /\ \A j \in 0..10 : j > k => ~ tested(id, j)
                   /\ redis.room[id] \in { 0, c }
                   /\ ~ BagIn(CodeExhausted(id), sent)
        /\ redis.room[id] # 0
              => \E k \in 0..10 : codeChecks(id, k, redis.room[id], FALSE) > 0
        /\ BagIn(RoomCreated(id), sent) => redis.room[id] # 0
        /\ BagIn(CodeExhausted(id), sent) <=> \A k \in 0..10 : collided(id, k)
        /\ BagIn(CodeExhausted(id), sent)
              => redis.room[id] = 0 /\ id \notin redis.active

\* One call gave up after 11 collisions; another saved its room under a
\* regenerated code.
C35_Witness ==
    \E id, id2 \in RoomIds :
        /\ BagIn(CodeExhausted(id), sent)
        /\ collided(id, 10)
        /\ BagIn(RoomCreated(id2), sent)
        /\ collided(id2, 0)

\* ------------------------------------------------- late generation claims
\* C32: a write of the image-generation orchestrator made after the stored
\* round has left image_generate changes neither the stored round's status
\* nor any of its submissions.
C32_LateWritesIgnored ==
    [][ ( /\ gen.pc = "running"
          /\ gen' # gen
          /\ storedRound.status # "image_generate" )
        => /\ storedRound'.status = storedRound.status
           /\ storedRound'.prompts = storedRound.prompts ]_vars

\* C33: saving the completion of one prompt's generation leaves the other
\* submissions of the stored room as client commands stored them: the
\* result a resubmission of another player has stored since the generation
\* started is still there after the save.
C33_CompletionKeepsResubmission ==
    [][ \A p, q \in PlayerIds :
          ( /\ p # q
            /\ gen.pc = "running"
            /\ p \in DOMAIN gen.task
            /\ gen.task[p] = "onProgress"
            /\ gen'.pc = "running"
            /\ gen'.task[p] = "done"
            /\ BagIn(ResubmitCall(q, "ok"), calls)
            /\ storedRound.prompts[q].status = "ready" )
          => storedRound'.prompts[q] = storedRound.prompts[q] ]_vars

\* C34: while the stored round is in image_generate and no generator call is
\* in flight, every submission of the round is ready, failed or rejected.
C34_NoneLeftGenerating ==
    (storedRound.status = "image_generate" /\ Quiescent)
      => \A p \in DOMAIN storedRound.prompts :
           storedRound.prompts[p].status \in { "ready", "failed", "rejected" }

\* C37: the stored round is never in image_generate with no generator call
\* in flight and no submission rejected.
C37_NeverStranded ==
    ~ ( /\ storedRound.status = "image_generate"
        /\ Quiescent
        /\ \A p \in DOMAIN storedRound.prompts :
              storedRound.prompts[p].status # "rejected" )

\* --------------------------------------------------------- similarity claims
tokensOf(text) == tokenize(trim(toLowerCase(text)))

\* C36: for every guess of a scored round the count calculateSimilarityScore
\* uses as the intersection is the number of distinct tokens common to the
\* prompt and the guess, and it does not exceed the count used as the union.
C36_KeywordTermIsJaccard ==
    storedRound.status = "reveal_results"
      => \A img \in scoredImages(storedRound) :
           \A p \in DOMAIN storedRound.guesses[img] :
             LET originalTokens ==
                   tokensOf(storedRound.prompts[imageCreatorId(storedRound, img)].prompt)
                 guessTokens == tokensOf(storedRound.guesses[img][p].guessText)
                 inter == Cardinality(keywordIntersection(originalTokens, guessTokens))
             IN  /\ inter = Cardinality(Range(originalTokens) \cap Range(guessTokens))
                 /\ inter <= Cardinality(keywordUnion(originalTokens, guessTokens))

\* -------------------------------------------------------- started game claims
\* C38: once the stored room is playing and has a game, no write of a
\* startGame, setPlayerReady, updatePlayerConnection or joinRoom call returns
\* it to lobby or removes its game.
C38_StartedStaysStarted ==
    [][ ( /\ roomExists
          /\ store.status = "playing"
          /\ store.game # NoGame
          /\ \E s \in Slots :
                /\ cmd[s].op \in { "startGame", "setPlayerReady",
                                    "updatePlayerConnection", "joinRoom" }
                /\ cmd'[s].op = "idle" )
        => /\ store'.status = "playing"
           /\ store'.game # NoGame ]_vars

\* C39: each leaderboard entry's roundScores has at most currentRound
\* entries and its totalScore is their sum.
C39_ScoredAtMostOnce ==
    (roomExists /\ store.game # NoGame)
      => \A i \in DOMAIN store.game.leaderboard.scores :
           LET e == store.game.leaderboard.scores[i]
           IN  /\ Len(e.roundScores) <= store.game.currentRound
               /\ e.totalScore = SumSeq(e.roundScores)

\* Two handlers have each called scoreRound for the same round and the
\* second has stored its result.
C39_Witness ==
    /\ storedRound.status = "reveal_results"
    /\ CopiesIn(PhaseTransition("reveal_results"), sent) >= 2

\* C40: once the stored game is in game_end, no step changes its status,
\* currentRound, rounds or leaderboard.
C40_GameEndTerminal ==
    [][ ( /\ roomExists
          /\ store.game # NoGame
          /\ store.game.status = "game_end" )
        => /\ store'.game.status = "game_end"
           /\ store'.game.currentRound = store.game.currentRound
           /\ store'.game.rounds = store.game.rounds
           /\ store'.game.leaderboard = store.game.leaderboard ]_vars
====
